---- MODULE Spec2Model ----
(***************************************************************************)
(* SpotSDK orchestrator (spot_sdk/core/manager.py): the monitoring loop,   *)
(* the mitigation sequence run on a termination notice, start/stop of the  *)
(* background polling task and the scoped-protection forms.                *)
(*                                                                         *)
(* Threads 1..MaxThreads are the polling tasks created by                  *)
(* start_monitoring; the caller's thread is none of them.  A polling task  *)
(* is stepped from one                                                     *)
(* blocking call to the next (detector poll, checkpoint save, drain,       *)
(* replacement); everything the code does between two blocking calls is    *)
(* one step, and the sleep that ends an iteration is taken together with   *)
(* the test of the loop condition that follows it.                         *)
(***************************************************************************)
EXTENDS Integers, Sequences, FiniteSets, TLC

\* ---------------------------------------------------------------- bounds
MaxThreads == 2      \* polling tasks ever created by start_monitoring
MaxNotices == 1      \* notices the Detector hands out, over all tasks
MaxErrors  == 1      \* check_termination calls that raise, over all tasks
MaxTicks   == 3      \* instants of the clock the Detector inputs are drawn from
TickSeconds == 45    \* seconds between two instants of that clock
MaxRegisters == 2    \* register calls made after the built-in registrations
MaxForce   == 1      \* force_checkpoint calls whose save succeeds
MaxIds     == 3      \* checkpoint ids, in the order of their object keys
MaxKeep    == 2      \* the largest max_checkpoints
MaxClock   == 3      \* instants of the clock the saves read
TicksPerSecond == 2  \* instants of that clock in one second

MaxCapacity == 3     \* the largest ordinary required_capacity
MaxTimeoutSteps == 4 \* the largest timeout_seconds, in steps of TimeoutStep
TimeoutStep == 10    \* seconds between two values of timeout_seconds
MaxNodes   == 3      \* nodes ray.nodes() reports
MaxRecorders == 2    \* threads calling the MetricsCollector
MaxRecords == 3      \* record_* calls, over all threads
MaxResets  == 1      \* reset_metrics calls, over all threads
MaxPrior   == 1      \* checkpoints in the directory before the two saves
MaxCalls   == 2      \* successive check_termination calls of one AWS Detector
MaxEvents  == 2      \* scheduled events in one answer of the Azure endpoint

\* ------------------------------------------------------ program constants
JoinTimeout == 5     \* monitor_thread.join(timeout=5)
PollInterval == 5        \* _wait_for_instances_ready: time.sleep(5)
SomeReadyAfter == 15     \* _wait_for_instances_ready: elapsed > 15
AllReadyAfter == 30      \* _wait_for_instances_ready: elapsed > 30
BaseTime == 120          \* estimate_replacement_time: base_time
PerInstanceTime == 30    \* estimate_replacement_time: 30s per instance
PlatformOverhead == 60   \* estimate_replacement_time: platform_overhead
CapacityCeiling == 10    \* can_handle_replacement: required_capacity > 10
DefaultDeadline == 120   \* deadline_seconds or 120
MinTimeNeeded == 60      \* _validate_replacement_context: min_time_needed
TokenTtl == 21600        \* _get_imds_token: token_expiry = time.time() + 21600
RefreshMargin == 10      \* _get_imds_token: time.time() < token_expiry - 10
AzureDeadline == 30      \* AzureIMDSDetector.check_termination: deadline_seconds=30

Threads == 1..MaxThreads

\* the termination the cloud schedules for this instance, as every positive
\* poll of the Detector reports it: scheduled time and deadline
Notices == { [time |-> 1, deadline_seconds |-> 90] }
NoNotice == [time |-> 0, deadline_seconds |-> -1]

\* the configuration fields _handle_termination reads
Configs == [ checkpoint_interval     : {0, 300},
             enable_preemptive_drain : BOOLEAN,
             strategy                : {"manual", "elastic_scale"} ]

\* The counters of the monitoring loop and of _handle_termination.  The
\* per-step outcome counters (checkpoints_*, graceful_shutdowns_*,
\* replacements_*) are written by the steps and read by nothing the
\* orchestrator does; they are not part of this state.
CounterNames == { "monitoring_starts_total", "monitoring_stops_total",
                  "monitoring_errors_total", "terminations_detected_total",
                  "terminations_handled_total", "termination_errors_total" }

Forms          == {"with", "protection", "protect"}
BodyResults    == {"result"}
BodyExceptions == {"TerminationDetectedError", "ValueError"}
NoOutcome      == [kind |-> "none", value |-> "none"]
BodyOutcomes   == [kind : {"return"}, value : BodyResults]
                    \cup [kind : {"raise"}, value : BodyExceptions]

NoSignal == [type |-> "none"]
NoRun    == [ckpt |-> "none", drain |-> "none", repl |-> "none",
             signal |-> NoSignal]

VARIABLES
    config,                   \* self.config
    running,                  \* self.running
    monitor_thread,           \* self.monitor_thread (0 = None), the newest task
    termination_detected,     \* self.termination_detected
    replacement_in_progress,  \* self.replacement_in_progress
    counters,                 \* MetricsCollector._counters
    monitoring_active,        \* MetricsCollector._gauges['monitoring_active']
    pc,                       \* position of each polling task
    notice,                   \* the termination_notice a task is handling
    run,                      \* what the task's current mitigation run did
    noticeCount,              \* notices the Detector has handed out
    errorCount,               \* check_termination calls that have raised
    callerPc,                 \* position of the caller's thread
    ret,                      \* where the caller's stop_monitoring returns to
    scope,                    \* the protection form the caller is inside
    bodyOutcome,              \* how the protected body ended
    scopeOutcome,             \* what left the scope towards the caller
    detCall,                  \* Detector: what the last call met on the network
    detResult,                \* Detector: what the last call returned or raised
    registry,                 \* the factories' class dicts: capability -> key -> class
    regLog,                   \* the register calls made so far, oldest first
    created,                  \* what the last create / SpotManager(config) gave
    apiResult,                \* what the last public read / force_checkpoint gave
    checkpoints_manual_total, \* MetricsCollector._counters['checkpoints_manual_total']
    storeCfg,                 \* Checkpoint Store: its StateConfig
    objects,                  \* Checkpoint Store: id -> the stored checkpoint
    clock,                    \* Checkpoint Store: the clock its saves read
    saved,                    \* the ids whose save returned true, oldest first
    storeResult,              \* Checkpoint Store: what the last call gave
    replCall,                 \* Replacement Strategy: the context and settings of the call
    replState,                \* Replacement Strategy: where execute_replacement is
    replResult,               \* Replacement Strategy: what the call returned
    platCall,                 \* Platform: the cluster get_cluster_state meets
    platResult,               \* Platform: the ClusterState it returned
    mxCounters,               \* MetricsCollector: _counters under concurrent recorders
    mxSeries,                 \* MetricsCollector: length of _timeseries['monitoring_errors']
    mxLock,                   \* MetricsCollector: the thread holding _lock (0 = free)
    mxThread,                 \* MetricsCollector: where each recording thread is
    mxApplied,                \* record_* calls that have written, per counter, since the last reset
    mxStarted,                \* record_* calls begun
    mxResets,                 \* reset_metrics calls that have cleared
    max_checkpoints,          \* StateConfig.max_checkpoints of the shared store
    checkpoint_dir,           \* the .pkl and .meta files of checkpoint_dir
    wallClock,                \* datetime.now() / st_mtime, one tick per file written
    saver,                    \* the two save_checkpoint calls: position and locals
    enable_imds_v2,           \* AWSIMDSDetector: config.enable_imds_v2
    token,                    \* AWSIMDSDetector: self.token
    token_expiry,             \* AWSIMDSDetector: self.token_expiry
    imdsNow,                  \* AWSIMDSDetector: time.time()
    imdsCall,                 \* AWSIMDSDetector: the last check_termination call, its requests and result
    imdsCalls                 \* AWSIMDSDetector: check_termination calls made

mgrVars     == <<running, monitor_thread, termination_detected,
                 replacement_in_progress>>
metricsVars == <<counters, monitoring_active>>
threadVars  == <<pc, notice, run>>
callerVars  == <<callerPc, ret, scope, bodyOutcome, scopeOutcome>>
envVars     == <<noticeCount, errorCount>>
mainVars    == <<config, mgrVars, metricsVars, threadVars, envVars, callerVars>>
detVars     == <<detCall, detResult>>
\* the components behind the manager, each checked under its own specification
regVars     == <<registry, regLog, created>>
apiVars     == <<apiResult, checkpoints_manual_total>>
storeVars   == <<storeCfg, objects, clock, saved, storeResult>>
replVars    == <<replCall, replState, replResult>>
platVars    == <<platCall, platResult>>
mxVars      == <<mxCounters, mxSeries, mxLock, mxThread, mxApplied, mxStarted, mxResets>>
dirVars     == <<max_checkpoints, checkpoint_dir, wallClock, saver>>
imdsVars    == <<enable_imds_v2, token, token_expiry, imdsNow, imdsCall, imdsCalls>>
compVars    == <<detVars, regVars, apiVars, storeVars, replVars, platVars, mxVars, dirVars, imdsVars>>
\* what a step of one component leaves alone
detFrame    == <<mainVars, regVars, apiVars, storeVars,
                replVars,
                platVars,
                mxVars,
                dirVars,
                imdsVars>>
regFrame    == <<mainVars, detVars, apiVars, storeVars,
                replVars,
                platVars,
                mxVars,
                dirVars,
                imdsVars>>
storeFrame  == <<mainVars, detVars, regVars, apiVars,
                replVars,
                platVars,
                mxVars,
                dirVars,
                imdsVars>>
replFrame   == <<mainVars, detVars, regVars, apiVars, storeVars,
                platVars,
                mxVars,
                dirVars,
                imdsVars>>
platFrame   == <<mainVars, detVars, regVars, apiVars, storeVars, replVars,
                mxVars,
                dirVars,
                imdsVars>>
mxFrame     == <<mainVars, detVars, regVars, apiVars, storeVars, replVars, platVars,
                dirVars,
                imdsVars>>
dirFrame    == <<mainVars, detVars, regVars, apiVars, storeVars, replVars, platVars, mxVars,
                imdsVars>>
imdsFrame   == <<mainVars, detVars, regVars, apiVars, storeVars, replVars, platVars, mxVars, dirVars>>
vars == <<mainVars, compVars>>

\* ------------------------------------------------------------- helpers
Inc(c, name) == [c EXCEPT ![name] = @ + 1]

IsAlive(t) == pc[t] \notin {"unstarted", "exited"}

\* SpotManager.__init__
MgrInit ==
    /\ config \in Configs
    /\ running = FALSE
    /\ monitor_thread = 0
    /\ termination_detected = FALSE
    /\ replacement_in_progress = FALSE
    /\ counters = [n \in CounterNames |-> 0]
    /\ monitoring_active = 0
    /\ pc = [t \in Threads |-> "unstarted"]
    /\ notice = [t \in Threads |-> NoNotice]
    /\ run = [t \in Threads |-> NoRun]
    /\ noticeCount = 0
    /\ errorCount = 0
    /\ callerPc = "idle"
    /\ ret = "idle"
    /\ scope = "none"
    /\ bodyOutcome = NoOutcome
    /\ scopeOutcome = NoOutcome

\* no Detector call is being made
NoCall   == [op |-> "none"]
NoResult == [kind |-> "pending"]
DetIdle ==
    /\ detCall = NoCall
    /\ detResult = NoResult

\* The four factories.  Keys are the strings callers pass (RawKeys, in any
\* letter case); the dicts are keyed by lower-case strings.
Capabilities == {"detector", "platform", "checkpoint", "replacement"}
RawKeys      == {"aws", "AWS", "auto", "mine"}
LowerKeys    == {"aws", "gcp", "azure", "ray", "kubernetes", "slurm", "ec2",
                 "s3", "local", "elastic_scale", "manual", "auto", "mine"}
Classes      == {"ClassA", "ClassB"}
\* the factories register is called on after the built-in registrations: one
\* that auto-detects and one that does not
RegisteredOn == {"detector", "checkpoint"}

\* str.lower()
Lower(k) ==
    CASE k = "AWS"  -> "aws"
      [] k \in {"Auto", "AUTO"} -> "auto"
      [] OTHER      -> k

\* register_builtin_components, run when the package is imported
BuiltinComponents ==
    [c \in Capabilities |-> [k \in LowerKeys |->
        CASE c = "detector" /\ k = "aws"     -> "AWSIMDSDetector"
          [] c = "detector" /\ k = "gcp"     -> "GCPMetadataDetector"
          [] c = "detector" /\ k = "azure"   -> "AzureIMDSDetector"
          [] c = "platform" /\ k = "ray"     -> "RayPlatformManager"
          [] c = "platform" /\ k = "ec2"     -> "EC2PlatformManager"
          [] c = "checkpoint" /\ k = "s3"    -> "S3CheckpointManager"
          [] c = "checkpoint" /\ k = "local" -> "LocalCheckpointManager"
          [] c = "replacement" /\ k = "elastic_scale" -> "ElasticScaleStrategy"
          [] OTHER -> "unregistered"]]

RegIdle ==
    /\ registry = BuiltinComponents
    /\ regLog = <<>>
    /\ created = NoCall

\* no public read and no force_checkpoint has been called
NoApi == [op |-> "none", kind |-> "none", ok |-> FALSE, save |-> "none",
          status |-> <<FALSE, FALSE, FALSE>>]

ApiIdle ==
    /\ apiResult = NoApi
    /\ checkpoints_manual_total = 0

\* checkpoint ids: i stands for the i-th id in the order of the keys
Ids == 1..MaxIds

NoObject == [present |-> FALSE, stamp |-> 0, compressed |-> FALSE,
             encrypted |-> FALSE, layers |-> <<>>, state |-> "none"]

NoStoreResult == [op |-> "none", id |-> 0, state |-> "none", ok |-> FALSE,
                  loaded |-> {}]

\* StateConfig's defaults, with max_checkpoints inside the bound
DefaultStateConfig ==
    [backend |-> "s3", compression_enabled |-> TRUE,
     enable_encryption |-> TRUE, max_checkpoints |-> MaxKeep,
     backend_config |-> "dict"]

\* an empty store
StoreEmpty ==
    /\ objects = [i \in Ids |-> NoObject]
    /\ clock = 0
    /\ saved = <<>>
    /\ storeResult = NoStoreResult

StoreIdle ==
    /\ storeCfg = DefaultStateConfig
    /\ StoreEmpty

\* no call of the Replacement Strategy
NoReplState  == [phase |-> "idle", target |-> 0, launched |-> 0, ready |-> 0,
                 elapsed |-> 0, requests |-> 0, warned |-> FALSE]
NoReplResult == [kind |-> "pending", success |-> FALSE, error |-> "none",
                 instances |-> 0, handoff_success |-> "unset"]

ReplIdle ==
    /\ replCall = NoCall
    /\ replState = NoReplState
    /\ replResult = NoReplResult

\* no call of a Platform's get_cluster_state
PlatIdle ==
    /\ platCall = NoCall
    /\ platResult = NoResult

\* the MetricsCollector after __init__, no thread inside it
Recorders   == 1..MaxRecorders
MetricNames == {"monitoring_errors_total", "checkpoints_saved_total"}
NoRecording == [pc |-> "idle", name |-> "none", local |-> 0]

MxIdle ==
    /\ mxCounters = [n \in MetricNames |-> 0]
    /\ mxSeries = 0
    /\ mxLock = 0
    /\ mxThread = [t \in Recorders |-> NoRecording]
    /\ mxApplied = [n \in MetricNames |-> 0]
    /\ mxStarted = 0
    /\ mxResets = 0

\* force_checkpoint runs on the caller's thread, _save_emergency_checkpoint
\* on the polling task; both call save_checkpoint of the same
\* LocalCheckpointManager, which takes no lock.
Savers == {"force_checkpoint", "emergency"}
\* ids 1..MaxPrior are checkpoints saved earlier; "manual-<t>" and
\* "emergency-<t>" are two more
DirIds == 1..(MaxPrior + 2)
SaverId(t) == IF t = "force_checkpoint" THEN MaxPrior + 1 ELSE MaxPrior + 2
NoFile == [pkl |-> FALSE, meta |-> FALSE, mtime |-> 0, timestamp |-> 0]
SaverIdle == [pc |-> "idle", io |-> "ok", globbed |-> {}, to_delete |-> <<>>,
              result |-> "none"]

DirIdle ==
    /\ max_checkpoints = 0
    /\ checkpoint_dir = [i \in DirIds |-> NoFile]
    /\ wallClock = 0
    /\ saver = [t \in Savers |-> SaverIdle]

\* AWSIMDSDetector.__init__: no token, token_expiry 0.  A token is the text
\* of the token endpoint's answer; None and the empty text are falsy.
NoToken == "None"
NoImdsCall == [op |-> "none"]

ImdsIdle ==
    /\ enable_imds_v2 = FALSE
    /\ token = NoToken
    /\ token_expiry = 0
    /\ imdsNow = 0
    /\ imdsCall = NoImdsCall
    /\ imdsCalls = 0

Init ==
    /\ MgrInit
    /\ DetIdle
    /\ RegIdle
    /\ ApiIdle
    /\ StoreIdle
    /\ ReplIdle
    /\ PlatIdle
    /\ MxIdle
    /\ DirIdle
    /\ ImdsIdle

\* ------------------------------------------------- the mitigation sequence
\* An exception raised in a Python thread unwinds that thread's own stack.
RaisedIn(t) == t

\* TerminationDetectedError(termination_time=..., deadline_seconds=...)
TerminationDetectedError(n, t, failed) ==
    [ type             |-> "TerminationDetectedError",
      deadline_seconds |-> n.deadline_seconds,
      termination_time |-> n.time,
      handling_failed  |-> failed,
      thread           |-> RaisedIn(t) ]

\* (variant: the except clause lets the caught exception go on instead)
HandleTerminationExceptReraises(n, t, e) ==
    [ type             |-> e,
      deadline_seconds |-> -1,
      termination_time |-> 0,
      handling_failed  |-> TRUE,
      thread           |-> RaisedIn(t) ]

\* _handle_termination, the except clause: what it raises for a caught e
HandleTerminationExcept(n, t, e) == TerminationDetectedError(n, t, TRUE)

\* _handle_termination, the raise after the try block
HandleTerminationFinal(n, t) == TerminationDetectedError(n, t, FALSE)

\* (variant: the handler catches the termination signal only)
MonitorLoopCatchesSignalOnly(excType) == excType = "TerminationDetectedError"

\* _monitor_loop, `except Exception`: every Exception raised in the loop
\* body is caught there, TerminationDetectedError included (SpotSDKError
\* derives from Exception), so the `break` after _handle_termination is
\* never reached.
MonitorLoopCatches(excType) == TRUE

\* A continuation: where task t stands next and what it has changed.
Cont(p, r, c, rip) == [pc |-> p, run |-> r, counters |-> c, rip |-> rip]

\* The signal leaves _handle_termination in task t and reaches the loop's
\* handler: record_monitoring_error, then the sleep that ends the
\* iteration.  Were it not caught, it would end the task.
Propagate(sig, r, c, rip) ==
    IF MonitorLoopCatches(sig.type)
    THEN Cont("loop", [r EXCEPT !.signal = sig],
              Inc(c, "monitoring_errors_total"), rip)
    ELSE Cont("exited", [r EXCEPT !.signal = sig], c, rip)

\* step 4 and the final raise
Finish(t, n, r, c, rip) ==
    Propagate(HandleTerminationFinal(n, t), r,
              Inc(c, "terminations_handled_total"), rip)

\* an exception e escaped a step inside the try block
Failed(t, n, e, r, c, rip) ==
    Propagate(HandleTerminationExcept(n, t, e), r,
              Inc(c, "termination_errors_total"), rip)

\* step 3: `if strategy != "manual"`, then _initiate_replacement up to the
\* read of replacement_in_progress
StepReplacement(t, n, r, c, rip) ==
    IF config.strategy # "manual"
    THEN IF rip
         THEN Finish(t, n, [r EXCEPT !.repl = "busy"], c, rip)
         ELSE Cont("repl_set", r, c, rip)
    ELSE Finish(t, n, r, c, rip)

\* step 2: `if enable_preemptive_drain`
StepDrain(t, n, r, c, rip) ==
    IF config.enable_preemptive_drain
    THEN Cont("in_drain", r, c, rip)
    ELSE StepReplacement(t, n, r, c, rip)

\* (variant: the handler starts at the drain step)
StepCheckpointDrainFirst(t, n, r, c, rip) == StepDrain(t, n, r, c, rip)

\* step 1: `if checkpoint_interval > 0`
StepCheckpoint(t, n, r, c, rip) ==
    IF config.checkpoint_interval > 0
    THEN Cont("in_save", r, c, rip)
    ELSE StepDrain(t, n, r, c, rip)

\* _initiate_graceful_shutdown: the exception that leaves the step
InitiateGracefulShutdown(res) ==
    IF res = "raised" THEN "PlatformError" ELSE "none"

\* (variant: the flag is cleared at the end of the try body, not in finally)
ReplacementFlagAfterNoFinally(res) ==
    res \in {"raised", "cluster_state_raised"}

\* _initiate_replacement, `finally`: the flag when the step ends
ReplacementFlagAfter(res) == FALSE

SaveOutcomes    == {"saved", "false", "raised"}
DrainOutcomes   == {"ok", "false", "raised"}
ReplaceOutcomes == {"success", "failed", "raised", "cluster_state_raised"}

\* task t takes the continuation k
Take(t, k) ==
    /\ pc' = [pc EXCEPT ![t] = k.pc]
    /\ run' = [run EXCEPT ![t] = k.run]
    /\ counters' = k.counters
    /\ replacement_in_progress' = k.rip

\* ------------------------------------------------------ the polling task
\* (variant: the loop never tests the flag)
LoopConditionAlways == TRUE

\* _monitor_loop: `while self.running`
LoopCondition == running

\* The task is at "loop" from its start, and after an iteration while it
\* sleeps poll_interval: its next step is the test of the loop condition,
\* which starts the next check_termination call or ends the task.
LoopCheck(t) ==
    /\ pc[t] = "loop"
    /\ IF LoopCondition
       THEN pc' = [pc EXCEPT ![t] = "in_call"]
       ELSE pc' = [pc EXCEPT ![t] = "exited"]
    /\ notice' = [notice EXCEPT ![t] = NoNotice]
    /\ run' = [run EXCEPT ![t] = NoRun]
    /\ UNCHANGED <<compVars, config, mgrVars, metricsVars, envVars, callerVars>>

\* check_termination returned None: sleep poll_interval
DetectorNothing(t) ==
    /\ pc[t] = "in_call"
    /\ pc' = [pc EXCEPT ![t] = "loop"]
    /\ UNCHANGED <<compVars, config, mgrVars, metricsVars, notice, run,
                   envVars, callerVars>>

\* check_termination raised: the loop's handler does record_monitoring_error
\* and sleeps poll_interval; an exception it did not catch would end the task
DetectorError(t) ==
    /\ pc[t] = "in_call"
    /\ errorCount < MaxErrors
    /\ errorCount' = errorCount + 1
    /\ IF MonitorLoopCatches("DetectionError")
       THEN /\ pc' = [pc EXCEPT ![t] = "loop"]
            /\ counters' = Inc(counters, "monitoring_errors_total")
       ELSE /\ pc' = [pc EXCEPT ![t] = "exited"]
            /\ UNCHANGED counters
    /\ UNCHANGED <<compVars, config, mgrVars, monitoring_active, notice, run,
                   noticeCount, callerVars>>

\* a variant in which _handle_termination enters without setting the flag
HandleTerminationEntryUnset == FALSE

\* the first statement of _handle_termination: self.termination_detected = True
HandleTerminationEntry == TRUE

\* check_termination returned a notice: _handle_termination up to its
\* first blocking call
DetectorNotice(t, n) ==
    /\ pc[t] = "in_call"
    /\ noticeCount < MaxNotices
    /\ noticeCount' = noticeCount + 1
    /\ termination_detected' = HandleTerminationEntry
    /\ notice' = [notice EXCEPT ![t] = n]
    /\ Take(t, StepCheckpoint(t, n, NoRun,
                   Inc(counters, "terminations_detected_total"),
                   replacement_in_progress))
    /\ UNCHANGED <<compVars, config, running, monitor_thread, monitoring_active,
                   errorCount, callerVars>>

\* _save_emergency_checkpoint ended: capture raised or not (the fallback
\* state is saved then), save_checkpoint returned true/false or raised
SaveReturns(t, captured, res) ==
    /\ pc[t] = "in_save"
    /\ Take(t, StepDrain(t, notice[t],
                   [run[t] EXCEPT !.ckpt = IF captured /\ res = "saved"
                                           THEN "saved" ELSE "failed"],
                   counters, replacement_in_progress))
    /\ UNCHANGED <<compVars, config, running, monitor_thread, termination_detected,
                   monitoring_active, notice, envVars, callerVars>>

\* drain_gracefully ended
DrainReturns(t, res) ==
    /\ pc[t] = "in_drain"
    /\ LET r == [run[t] EXCEPT !.drain = res]
           c == counters
           e == InitiateGracefulShutdown(res)
       IN  Take(t, IF e # "none"
                   THEN Failed(t, notice[t], e, r, c, replacement_in_progress)
                   ELSE StepReplacement(t, notice[t], r, c,
                                        replacement_in_progress))
    /\ UNCHANGED <<compVars, config, running, monitor_thread, termination_detected,
                   monitoring_active, notice, envVars, callerVars>>

\* _initiate_replacement: `self.replacement_in_progress = True`
ReplacementSet(t) ==
    /\ pc[t] = "repl_set"
    /\ replacement_in_progress' = TRUE
    /\ pc' = [pc EXCEPT ![t] = "in_replace"]
    /\ UNCHANGED <<compVars, config, running, monitor_thread, termination_detected,
                   metricsVars, notice, run, envVars, callerVars>>

\* get_cluster_state / execute_replacement ended
ReplaceReturns(t, res) ==
    /\ pc[t] = "in_replace"
    /\ Take(t, Finish(t, notice[t], [run[t] EXCEPT !.repl = "done"],
                      counters,
                      ReplacementFlagAfter(res)))
    /\ UNCHANGED <<compVars, config, running, monitor_thread, termination_detected,
                   monitoring_active, notice, envVars, callerVars>>

\* ----------------------------------------------------- the caller's thread
\* (variant: start_monitoring without the `if self.running: return`)
start_monitoring_unguarded ==
    /\ monitor_thread < MaxThreads
    /\ running' = TRUE
    /\ monitor_thread' = monitor_thread + 1
    /\ pc' = [pc EXCEPT ![monitor_thread + 1] = "loop"]
    /\ counters' = Inc(counters, "monitoring_starts_total")
    /\ monitoring_active' = 1

\* start_monitoring: no-op when self.running, else a new polling task
start_monitoring ==
    IF running
    THEN UNCHANGED <<running, monitor_thread, pc, counters, monitoring_active>>
    ELSE /\ monitor_thread < MaxThreads
         /\ running' = TRUE
         /\ monitor_thread' = monitor_thread + 1
         /\ pc' = [pc EXCEPT ![monitor_thread + 1] = "loop"]
         /\ counters' = Inc(counters, "monitoring_starts_total")
         /\ monitoring_active' = 1

\* record_monitoring_stopped
RecordMonitoringStopped ==
    /\ counters' = Inc(counters, "monitoring_stops_total")
    /\ monitoring_active' = 0

\* (variant: __exit__ returns True for the expected termination signal)
ExitSuppressesTermination(excType) == excType = "TerminationDetectedError"

\* __exit__ returns False for every exc_type: nothing is suppressed
ExitSuppresses(excType) == FALSE

\* what reaches the caller of the scope once the scope has been left
LeaveWith(form, outcome) ==
    IF /\ outcome.kind = "raise"
       /\ form \in {"with", "protect"}
       /\ ExitSuppresses(outcome.value)
    THEN [kind |-> "return", value |-> "None"]
    ELSE outcome

\* stop_monitoring returns to position r of the caller
Return(r) ==
    IF r = "leave"
    THEN /\ callerPc' = "left"
         /\ scopeOutcome' = LeaveWith(scope, bodyOutcome)
    ELSE /\ callerPc' = r
         /\ UNCHANGED scopeOutcome

\* (variant: join() without a timeout)
ThreadJoinUnbounded(t) == ~IsAlive(t)

\* Thread.join(timeout): returns when the task has ended or the timeout ran out
ThreadJoin(t) == ~IsAlive(t) \/ JoinTimeout > 0

\* stop_monitoring up to the join: no-op when not running
StopBegin(r) ==
    IF ~running
    THEN /\ Return(r)
         /\ UNCHANGED <<running, metricsVars, ret>>
    ELSE /\ running' = FALSE
         /\ IF monitor_thread # 0 /\ IsAlive(monitor_thread)
            THEN /\ callerPc' = "joining"
                 /\ ret' = r
                 /\ UNCHANGED <<metricsVars, scopeOutcome>>
            ELSE /\ RecordMonitoringStopped
                 /\ Return(r)
                 /\ UNCHANGED ret

\* the caller calls spot.start_monitoring()
CallStart ==
    /\ callerPc = "idle"
    /\ callerPc' = "start"
    /\ ret' = callerPc
    /\ UNCHANGED <<compVars, config, mgrVars, metricsVars, threadVars, envVars, scope,
                   bodyOutcome, scopeOutcome>>

StartMonitoring ==
    /\ callerPc = "start"
    /\ start_monitoring
    /\ callerPc' = ret
    /\ UNCHANGED <<compVars, config, termination_detected, replacement_in_progress,
                   notice, run, envVars, ret, scope, bodyOutcome,
                   scopeOutcome>>

\* the caller calls spot.stop_monitoring()
CallStop ==
    /\ callerPc = "idle"
    /\ callerPc' = "stop"
    /\ ret' = callerPc
    /\ UNCHANGED <<compVars, config, mgrVars, metricsVars, threadVars, envVars, scope,
                   bodyOutcome, scopeOutcome>>

StopMonitoring ==
    /\ callerPc = "stop"
    /\ StopBegin(ret)
    /\ UNCHANGED <<compVars, config, monitor_thread, termination_detected,
                   replacement_in_progress, threadVars, envVars, scope,
                   bodyOutcome>>

\* stop_monitoring after the join: record_monitoring_stopped, return
JoinReturns ==
    /\ callerPc = "joining"
    /\ ThreadJoin(monitor_thread)
    /\ RecordMonitoringStopped
    /\ Return(ret)
    /\ UNCHANGED <<compVars, config, mgrVars, threadVars, envVars, ret, scope,
                   bodyOutcome>>

\* a manager on which nothing has been started yet
Fresh == monitor_thread = 0 /\ ~running

\* __enter__ / the head of protection() / the head of protect()'s wrapper:
\* start_monitoring, then the body runs.  protection() and protect()
\* construct their own manager.
EnterScope(form) ==
    /\ callerPc = "idle"
    /\ form = "with" \/ Fresh
    /\ start_monitoring
    /\ scope' = form
    /\ callerPc' = "body"
    /\ UNCHANGED <<compVars, config, termination_detected, replacement_in_progress,
                   notice, run, envVars, ret, bodyOutcome,
                   scopeOutcome>>

\* the protected body returns a result or raises
BodyEnds(outcome) ==
    /\ callerPc = "body"
    /\ bodyOutcome' = outcome
    /\ callerPc' = "exit"
    /\ UNCHANGED <<compVars, config, mgrVars, metricsVars, threadVars, envVars, ret,
                   scope, scopeOutcome>>

\* __exit__ / protection()'s finally: stop_monitoring, then propagate
ExitScope ==
    /\ callerPc = "exit"
    /\ StopBegin("leave")
    /\ UNCHANGED <<compVars, config, monitor_thread, termination_detected,
                   replacement_in_progress, threadVars, envVars, scope,
                   bodyOutcome>>

\* the caller goes on after the scope
Leave ==
    /\ callerPc = "left"
    /\ callerPc' = "idle"
    /\ scope' = "none"
    /\ bodyOutcome' = NoOutcome
    /\ scopeOutcome' = NoOutcome
    /\ UNCHANGED <<compVars, config, mgrVars, metricsVars, threadVars, envVars, ret>>

\* ------------------------------------------------------------ specification
Next ==
    \/ \E t \in Threads : LoopCheck(t)
    \/ \E t \in Threads : DetectorNothing(t)
    \/ \E t \in Threads : DetectorError(t)
    \/ \E t \in Threads, n \in Notices : DetectorNotice(t, n)
    \/ \E t \in Threads, captured \in BOOLEAN, res \in SaveOutcomes :
          SaveReturns(t, captured, res)
    \/ \E t \in Threads, res \in DrainOutcomes : DrainReturns(t, res)
    \/ \E t \in Threads : ReplacementSet(t)
    \/ \E t \in Threads, res \in ReplaceOutcomes : ReplaceReturns(t, res)
    \/ CallStart
    \/ StartMonitoring
    \/ CallStop
    \/ StopMonitoring
    \/ JoinReturns
    \/ \E form \in Forms : EnterScope(form)
    \/ \E outcome \in BodyOutcomes : BodyEnds(outcome)
    \/ ExitScope
    \/ Leave

Spec == Init /\ [][Next]_vars

\* every step polling task t can take
ThreadNext(t) ==
    \/ LoopCheck(t)
    \/ DetectorNothing(t)
    \/ DetectorError(t)
    \/ \E n \in Notices : DetectorNotice(t, n)
    \/ \E captured \in BOOLEAN, res \in SaveOutcomes :
          SaveReturns(t, captured, res)
    \/ \E res \in DrainOutcomes : DrainReturns(t, res)
    \/ ReplacementSet(t)
    \/ \E res \in ReplaceOutcomes : ReplaceReturns(t, res)

\* The liveness specifications run the manager under the configuration in
\* which every mitigation step is enabled (the longest mitigation runs).
InitAllSteps ==
    /\ Init
    /\ config.checkpoint_interval > 0
    /\ config.enable_preemptive_drain
    /\ config.strategy # "manual"

\* join(timeout=5) comes back by itself; the polling tasks may hang in any
\* of their blocking calls.
FairStopSpec == InitAllSteps /\ [][Next]_vars /\ WF_vars(JoinReturns)

\* The blocking calls of the polling tasks return (the Detector's requests
\* carry detector_timeout, the sleep is finite): while some task can take a
\* step, a task does.  The caller is free to stop.
FairSpec ==
    InitAllSteps /\ [][Next]_vars /\ WF_vars(\E t \in Threads : ThreadNext(t))

\* The blocking calls of the task start_monitoring created last return:
\* while that task can take a step it eventually takes one.  Older tasks
\* and the caller are left free.
FairMonitorSpec ==
    /\ InitAllSteps
    /\ [][Next]_vars
    /\ WF_vars(\E t \in Threads : t = monitor_thread /\ ThreadNext(t))

\* -------------------------------------------------------------- Detectors
\* A Detector call is a function of what its HTTP requests meet and of the
\* clock: detCall holds the inputs of the call, detResult what it gave.
Providers == {"aws", "gcp", "azure"}

\* Optional[int]: None is the empty set, a value v is {v}
None    == {}
Some(v) == {v}

\* instants (seconds) at which the cloud schedules the termination, and at
\* which the Detector reads the clock
Times == {k * TickSeconds : k \in 0..MaxTicks}

\* what one request meets: the status of the response, or the exception
\* session.get / session.put raises
HttpStatuses   == {"200", "401", "404", "500", "504"}
HttpExceptions == {"ConnectTimeout", "ConnectionError", "ReadTimeout"}
Responses      == HttpStatuses \cup HttpExceptions

\* the classes named in the Detectors' except clauses that exception e is an
\* instance of (requests.exceptions: ConnectTimeout derives from
\* ConnectionError and Timeout, ReadTimeout from Timeout only)
ExcClasses(e) ==
    CASE e = "ConnectTimeout"  -> {"ConnectTimeout", "ConnectionError",
                                   "Timeout", "RequestException", "Exception"}
      [] e = "ConnectionError" -> {"ConnectionError", "RequestException",
                                   "Exception"}
      [] e = "ReadTimeout"     -> {"ReadTimeout", "Timeout",
                                   "RequestException", "Exception"}
      [] e = "HTTPError"       -> {"HTTPError", "RequestException", "Exception"}
      [] OTHER                 -> {e, "Exception"}

\* the forms of the scheduled time in a response body or a dict: ISO with a
\* trailing Z (parsed to a zone-aware datetime), ISO without a zone (naive),
\* or not ISO at all (fromisoformat raises ValueError)
TimeForms == {"zulu", "naive", "unparsable"}

ReturnsNone       == [kind |-> "none"]
ReturnsNotice(n)  == [kind |-> "notice", notice |-> n]
Raises(e)         == [kind |-> "raise", exc |-> e]

\* TerminationNotice(cloud_provider, time, deadline_seconds)
TerminationNotice(p, t, aware, deadline) ==
    [cloud_provider |-> p, time |-> t, aware |-> aware,
     deadline_seconds |-> deadline]

Max(a, b) == IF a >= b THEN a ELSE b

\* AWSIMDSDetector._parse_termination_notice: the notice, or the exception
\* that leaves it.  datetime.now() is naive: subtracting it from a zone-aware
\* scheduled time raises TypeError.
ParseTerminationNotice(env) ==
    LET aware == env.time_form = "zulu"
        termination_time ==
            IF env.time_form = "unparsable"
            THEN (env.now \div 60) * 60 + 120
            ELSE env.scheduled
    IN  IF aware
        THEN Raises("TypeError")
        ELSE ReturnsNotice(TerminationNotice("aws", termination_time, FALSE,
                               Some(Max(0, termination_time - env.now))))

\* AWSIMDSDetector._check_termination_v1: every exception gives None
CheckTerminationV1(env) ==
    IF env.retry = "200"
    THEN LET r == ParseTerminationNotice(env)
         IN  IF r.kind = "raise" THEN ReturnsNone ELSE r
    ELSE ReturnsNone

\* AWSIMDSDetector.check_termination, the except clauses that return None
AWSExceptReturnsNone(e) ==
    \/ "ConnectTimeout" \in ExcClasses(e)
    \/ "ConnectionError" \in ExcClasses(e)

\* what an exception e raised inside the try block becomes
AWSExcept(e) ==
    IF AWSExceptReturnsNone(e) THEN ReturnsNone ELSE Raises("DetectionError")

\* AWSIMDSDetector.check_termination.  The token request swallows its own
\* failures; the token only decides which headers are sent.
AWSCheckTermination(env) ==
    IF env.request \in HttpExceptions
    THEN AWSExcept(env.request)
    ELSE CASE env.request = "200" ->
                 LET r == ParseTerminationNotice(env)
                 IN  IF r.kind = "raise" THEN AWSExcept(r.exc) ELSE r
           [] env.request = "404" -> ReturnsNone
           [] env.request = "401" /\ env.enable_imds_v2 ->
                 CheckTerminationV1(env)
           [] OTHER -> ReturnsNone

\* str(e) of the HTTPError raise_for_status raises holds the reason phrase
MessageHasTimeout(status) == status = "504"

\* _check_preemption_status / _get_scheduled_events: what leaves the request.
\* ConnectionError and Timeout give "nothing there", so does a 404; any
\* other error status leaves as HTTPError.
MetadataRequest(env) ==
    IF env.request \in HttpExceptions
    THEN IF ExcClasses(env.request) \cap {"ConnectionError", "Timeout"} # {}
         THEN "nothing" ELSE env.request
    ELSE IF env.request = "200" THEN "body"
         ELSE IF env.request = "404" THEN "nothing" ELSE "HTTPError"

\* check_termination of the GCP and Azure Detectors, `except
\* RequestException`: a message that mentions a timeout gives None
RequestExcept(env) ==
    IF MessageHasTimeout(env.request)
    THEN ReturnsNone ELSE Raises("DetectionError")

\* GCPMetadataDetector.check_termination
GCPCheckTermination(env) ==
    LET r == MetadataRequest(env)
    IN  CASE r = "nothing" -> ReturnsNone
          [] r = "body" ->
                IF env.preempted
                THEN ReturnsNotice(TerminationNotice("gcp", env.now, TRUE,
                                                     Some(30)))
                ELSE ReturnsNone
          [] OTHER -> RequestExcept(env)

\* AzureIMDSDetector.check_termination: env.preempted says that the events
\* hold one of type Preempt or Terminate
AzureCheckTermination(env) ==
    LET r == MetadataRequest(env)
    IN  CASE r = "nothing" -> ReturnsNone
          [] r = "body" ->
                IF env.preempted
                THEN ReturnsNotice(TerminationNotice("azure",
                         IF env.time_form = "unparsable"
                         THEN env.now ELSE env.scheduled,
                         TRUE, Some(30)))
                ELSE ReturnsNone
          [] OTHER -> RequestExcept(env)

\* the inputs of one check_termination call
DetectorEnvs ==
    [ op             : {"check_termination"},
      provider       : Providers,
      enable_imds_v2 : BOOLEAN,
      request        : Responses,
      retry          : {"200", "404", "ReadTimeout"},
      preempted      : BOOLEAN,
      time_form      : TimeForms,
      scheduled      : Times,
      now            : Times ]

CheckTermination ==
    /\ detCall.op = "check_termination"
    /\ detResult = NoResult
    /\ detResult' =
          CASE detCall.provider = "aws"   -> AWSCheckTermination(detCall)
            [] detCall.provider = "gcp"   -> GCPCheckTermination(detCall)
            [] detCall.provider = "azure" -> AzureCheckTermination(detCall)
    /\ UNCHANGED <<detFrame, detCall>>

\* the dicts handed to TerminationNotice.from_dict
NoticeDicts ==
    [ op               : {"from_dict"},
      time_form        : TimeForms,
      scheduled        : Times,
      now              : Times,
      deadline_seconds : {None} \cup {Some(d) : d \in {-1, 0} \cup Times} ]

\* TerminationNotice.from_dict: the time is parsed (now() when it cannot
\* be), deadline_seconds is data.get('deadline_seconds') as it is
from_dict(data) ==
    TerminationNotice("unknown",
        IF data.time_form = "unparsable" THEN data.now ELSE data.scheduled,
        data.time_form = "zulu",
        data.deadline_seconds)

FromDict ==
    /\ detCall.op = "from_dict"
    /\ detResult = NoResult
    /\ detResult' = ReturnsNotice(from_dict(detCall))
    /\ UNCHANGED <<detFrame, detCall>>

DetNext ==
    \/ CheckTermination
    \/ FromDict

\* one call per behaviour, on inputs drawn from DetectorEnvs and NoticeDicts
DetInit ==
    /\ MgrInit
    /\ config.checkpoint_interval > 0
    /\ config.enable_preemptive_drain
    /\ config.strategy # "manual"
    /\ detCall \in DetectorEnvs \cup NoticeDicts
    /\ detResult = NoResult
    /\ RegIdle
    /\ ApiIdle
    /\ StoreIdle
    /\ ReplIdle
    /\ PlatIdle
    /\ MxIdle
    /\ DirIdle
    /\ ImdsIdle

DetectorSpec == DetInit /\ [][DetNext]_vars

\* ------------------------------------- the Azure Detector's scheduled events
\* An event of the Events list: its EventType, the form of its NotBefore
\* (missing counts as unparsable: fromisoformat('') raises ValueError) and
\* the instant NotBefore names.
EventTypes == {"Preempt", "Terminate", "Reboot"}
ScheduledEvents == [EventType : EventTypes, time_form : TimeForms,
                    NotBefore : Times]

RECURSIVE EventLists(_)
EventLists(n) ==
    IF n = 0 THEN {<<>>}
    ELSE EventLists(n - 1)
           \cup {Append(l, e) : l \in {x \in EventLists(n - 1) : Len(x) = n - 1},
                                e \in ScheduledEvents}

\* _find_termination_event: termination_types
TerminationTypes == {"Preempt", "Terminate"}

\* _find_termination_event: the index of the first event of a terminating
\* type, 0 for None
FindTerminationEvent(events) ==
    LET hits == {k \in 1..Len(events) : events[k].EventType \in TerminationTypes}
    IN  IF hits = {} THEN 0 ELSE CHOOSE k \in hits : \A j \in hits : k <= j

\* EventType.lower()
LowerEventType(ty) ==
    CASE ty = "Preempt"   -> "preempt"
      [] ty = "Terminate" -> "terminate"
      [] OTHER            -> "reboot"

\* (variant: the deadline is the time left until NotBefore)
AzureDeadlineSecondsFromNotBefore(e, now) ==
    IF e.time_form = "unparsable" THEN AzureDeadline
    ELSE Max(0, e.NotBefore - now)

\* check_termination: deadline_seconds of the notice
AzureDeadlineSeconds(e, now) == AzureDeadline

\* AzureIMDSDetector.check_termination once _get_scheduled_events has
\* returned the list
AzureScheduledEvents(events, now) ==
    LET k == FindTerminationEvent(events)
    IN  IF events = <<>> \/ k = 0 THEN ReturnsNone
        ELSE [kind   |-> "notice",
              action |-> LowerEventType(events[k].EventType),
              notice |-> TerminationNotice("azure",
                            IF events[k].time_form = "unparsable"
                            THEN now ELSE events[k].NotBefore,
                            events[k].time_form # "naive",
                            Some(AzureDeadlineSeconds(events[k], now)))]

AzureEventCalls ==
    [ op : {"scheduled_events"}, events : EventLists(MaxEvents),
      now : {TickSeconds} ]

AzureCheckEvents ==
    /\ detCall.op = "scheduled_events"
    /\ detResult = NoResult
    /\ detResult' = AzureScheduledEvents(detCall.events, detCall.now)
    /\ UNCHANGED <<detFrame, detCall>>

AzureNext == AzureCheckEvents

AzureInit ==
    /\ MgrInit
    /\ config.checkpoint_interval > 0
    /\ config.enable_preemptive_drain
    /\ config.strategy # "manual"
    /\ detCall \in AzureEventCalls
    /\ detResult = NoResult
    /\ RegIdle
    /\ ApiIdle
    /\ StoreIdle
    /\ ReplIdle
    /\ PlatIdle
    /\ MxIdle
    /\ DirIdle
    /\ ImdsIdle

AzureSpec == AzureInit /\ [][AzureNext]_vars

\* --------------------------------------------------------------- Registry
\* (variant: register keeps the key as given)
RegisterKeyAsGiven(k) == k

\* <Factory>.register: the dict key of a binding
RegisterKey(k) == Lower(k)

\* only the detector and platform factories treat "auto" as a request to
\* auto-detect
AutoDetects(c, k) == c \in {"detector", "platform"} /\ Lower(k) = "auto"

\* what _auto_detect_cloud_provider / _auto_detect_platform can answer when
\* create runs it
AutoDetected(c, k) ==
    IF ~AutoDetects(c, k) THEN {"none"}
    ELSE IF c = "detector" THEN {"aws", "gcp", "azure"}
    ELSE {"ray", "kubernetes", "slurm", "ec2"}

\* <Factory>.create: the dict key looked up for the key passed
CreateKey(c, k, detected) == IF AutoDetects(c, k) THEN detected ELSE Lower(k)

\* the exception class each factory raises for a key not in its dict
UnregisteredError(c) ==
    CASE c = "detector" -> "UnsupportedCloudProviderError"
      [] c = "platform" -> "UnsupportedPlatformError"
      [] OTHER          -> "ConfigurationError"

\* <Factory>.create(key, config)
FactoryCreate(reg, c, k, detected) ==
    LET key == CreateKey(c, k, detected)
    IN  IF reg[c][key] = "unregistered"
        THEN [kind |-> "raise", exc |-> UnregisteredError(c), names |-> key]
        ELSE [kind |-> "instance", class |-> reg[c][key]]

Register(c, k, class) ==
    /\ created = NoCall
    /\ Len(regLog) < MaxRegisters
    /\ registry' = [registry EXCEPT ![c][RegisterKey(k)] = class]
    /\ regLog' = Append(regLog, [capability |-> c, key |-> k, class |-> class])
    /\ UNCHANGED <<regFrame, created>>

Create(c, k, detected) ==
    /\ created = NoCall
    /\ detected \in AutoDetected(c, k)
    /\ created' = [op |-> "create", capability |-> c, key |-> k,
                   detected |-> detected,
                   result |-> FactoryCreate(registry, c, k, detected)]
    /\ UNCHANGED <<regFrame, registry, regLog>>

\* the keys a SpotConfig names: cloud_provider, platform, state.backend,
\* replacement.strategy
ConfigKeys ==
    [ detector    : {"aws", "mine"},
      platform    : {"ec2", "mine"},
      checkpoint  : {"local", "mine"},
      replacement : {"elastic_scale", "manual"} ]

\* SpotManager._init_components: the four creates in order; whatever one
\* of them raises is wrapped in ConfigurationError, whose message holds the
\* message of the exception caught.  No thread exists before start_monitoring.
InitComponents(reg, keys) ==
    LET Try(c) == FactoryCreate(reg, c, keys[c], "aws")
        failed == {c \in Capabilities : Try(c).kind = "raise"}
        first  == IF "detector" \in failed THEN "detector"
                  ELSE IF "platform" \in failed THEN "platform"
                  ELSE IF "checkpoint" \in failed THEN "checkpoint"
                  ELSE "replacement"
    IN  IF failed = {}
        THEN [kind |-> "instance", class |-> "SpotManager"]
        ELSE [kind |-> "raise", exc |-> "ConfigurationError",
              names |-> Try(first).names]

Construct(keys) ==
    /\ created = NoCall
    /\ created' = [op |-> "construct", keys |-> keys,
                   result |-> InitComponents(registry, keys)]
    /\ UNCHANGED <<regFrame, registry, regLog>>

RegNext ==
    \/ \E c \in RegisteredOn, k \in RawKeys, class \in Classes :
          Register(c, k, class)
    \/ \E c \in Capabilities, k \in RawKeys :
          \E detected \in AutoDetected(c, k) : Create(c, k, detected)
    \/ \E keys \in ConfigKeys : Construct(keys)

\* any registers, then one create or one construction
RegistrySpec == InitAllSteps /\ [][RegNext]_vars

\* ------------------------------------------- auto-detection of the provider
\* what the probe of one provider's metadata endpoint meets
ProbeResponses == {"200", "404", "500", "ConnectTimeout"}
Probes == [Providers -> ProbeResponses]
\* the keys that are, or are not, a request to auto-detect
AutoKeys == {"auto", "Auto", "AUTO", "aws"}

\* (variant: GCP is probed first)
ProbeOrderGcpFirst == <<"gcp", "aws", "azure">>

\* _auto_detect_cloud_provider: the order of the three try blocks
ProbeOrder == <<"aws", "gcp", "azure">>

\* _auto_detect_cloud_provider from its i-th probe on: a 200 returns the
\* provider, anything else (another status, an exception under the bare
\* except) goes on to the next probe; after the last, "aws"
RECURSIVE DetectFrom(_, _)
DetectFrom(probes, i) ==
    IF i > Len(ProbeOrder) THEN "aws"
    ELSE IF probes[ProbeOrder[i]] = "200" THEN ProbeOrder[i]
    ELSE DetectFrom(probes, i + 1)

\* _auto_detect_cloud_provider; when `import requests` fails no probe is made
AutoDetectCloudProvider(probes, importable) ==
    IF importable THEN DetectFrom(probes, 1) ELSE "aws"

\* TerminationDetectorFactory.create(key, config) on a machine where the
\* probes answer as given
ProbeCreate(k, probes, importable) ==
    /\ created = NoCall
    /\ LET detected == IF AutoDetects("detector", k)
                       THEN AutoDetectCloudProvider(probes, importable)
                       ELSE "none"
       IN  created' = [op |-> "probe_create", capability |-> "detector",
                       key |-> k, probes |-> probes,
                       importable |-> importable, detected |-> detected,
                       result |-> FactoryCreate(registry, "detector", k,
                                                detected)]
    /\ UNCHANGED <<regFrame, registry, regLog>>

ProbeNext ==
    \E k \in AutoKeys, probes \in Probes, importable \in BOOLEAN :
        ProbeCreate(k, probes, importable)

ProbeSpec == InitAllSteps /\ [][ProbeNext]_vars

\* ------------------------------------------------ the public read methods
\* get_status, get_cluster_state, get_metrics and force_checkpoint take no
\* lock of the manager and look at no position of the polling task: any
\* application thread may call them at any moment.
ApiFrame == <<config, mgrVars, monitoring_active, threadVars, envVars,
              callerVars, detVars, regVars, storeVars,
                replVars,
                platVars,
                mxVars,
                dirVars,
                imdsVars>>

\* get_status builds a dict from the three flags, the configuration and the
\* clock
GetStatus ==
    /\ apiResult' = [NoApi EXCEPT !.op = "get_status", !.kind = "returned",
                        !.status = <<running, termination_detected,
                                     replacement_in_progress>>]
    /\ UNCHANGED <<ApiFrame, counters, checkpoints_manual_total>>

\* get_cluster_state hands on what platform_manager.get_cluster_state
\* returns or raises
ClusterStateOutcomes == {"returned", "raised"}

GetClusterState(outcome) ==
    /\ apiResult' = [NoApi EXCEPT !.op = "get_cluster_state", !.kind = outcome]
    /\ UNCHANGED <<ApiFrame, counters, checkpoints_manual_total>>

\* a variant of get_all_metrics that resets the counters it has reported
CountersAfterReadReset(c) == [n \in DOMAIN c |-> 0]

\* get_all_metrics copies the counters (dict(self._counters)) and computes
\* the rates with _counters.get, which inserts nothing; every division is
\* behind a test for zero
CountersAfterRead(c) == c

GetMetrics ==
    /\ apiResult' = [NoApi EXCEPT !.op = "get_metrics", !.kind = "returned"]
    /\ counters' = CountersAfterRead(counters)
    /\ UNCHANGED <<ApiFrame, checkpoints_manual_total>>

\* a variant of force_checkpoint that reports success whatever save gave
ForceCheckpointResultAlways(captured, res) == TRUE

\* what force_checkpoint returns: save_checkpoint's value, False when the
\* capture or the save raised into its try block
ForceCheckpointResult(captured, res) == captured /\ res = "saved"

\* force_checkpoint: _capture_application_state returned (captured) or an
\* overriding capture raised; save_checkpoint returned true / false or
\* raised; record_checkpoint_saved(manual=True) after a true save
ForceCheckpoint(captured, res) ==
    /\ LET ok == ForceCheckpointResult(captured, res) IN
       /\ ok => checkpoints_manual_total < MaxForce
       /\ apiResult' = [NoApi EXCEPT !.op = "force_checkpoint",
                           !.kind = "returned", !.ok = ok,
                           !.save = IF captured THEN res ELSE "none"]
       /\ checkpoints_manual_total' =
              IF ok THEN checkpoints_manual_total + 1
                    ELSE checkpoints_manual_total
    /\ UNCHANGED <<ApiFrame, counters>>

ApiNext ==
    \/ Next
    \/ GetStatus
    \/ \E outcome \in ClusterStateOutcomes : GetClusterState(outcome)
    \/ GetMetrics
    \/ \E captured \in BOOLEAN, res \in SaveOutcomes :
          ForceCheckpoint(captured, res)

\* the manager with its public methods called at any moment
ApiSpec == InitAllSteps /\ [][ApiNext]_vars

\* --------------------------------------------------- the Checkpoint Store
\* LocalCheckpointManager and S3CheckpointManager over one directory / one
\* bucket prefix.  A stored checkpoint is its payload, the layers around the
\* state outermost first, with the metadata written next to it.
StateValues == {"epoch1", "epoch2"}

\* backend_config is a dict or a string ("s3://bucket/prefix", a directory)
StoreConfigs == [ backend             : {"local", "s3"},
                  compression_enabled : BOOLEAN,
                  enable_encryption   : BOOLEAN,
                  max_checkpoints     : 1..MaxKeep,
                  backend_config      : {"dict", "str"} ]

\* what the file system / S3 does with the write
IoOutcomes == {"ok", "fails"}

Pickle(state)   == [layers |-> <<"pickle">>, state |-> state]
Wrap(layer, d)  == [d EXCEPT !.layers = <<layer>> \o @]
Wrapped(layer, d) == d.layers # <<>> /\ Head(d.layers) = layer
Unwrap(d)       == [d EXCEPT !.layers = Tail(@)]

\* pickle.dumps, gzip.compress if compression_enabled, and on S3
\* _encrypt_data if enable_encryption
Serialize(cfg, state) ==
    LET pickled    == Pickle(state)
        compressed == IF cfg.compression_enabled
                      THEN Wrap("gzip", pickled) ELSE pickled
    IN  IF cfg.backend = "s3" /\ cfg.enable_encryption
        THEN Wrap("fernet", compressed) ELSE compressed

\* the timestamp the listing sorts by: datetime.now() with its microseconds
\* in the local .meta file, str(int(time.time())) in the S3 metadata
Stamp(cfg, now) ==
    IF cfg.backend = "local" THEN now ELSE now \div TicksPerSecond

\* the write goes through: S3's put_object is handed
\* ServerSideEncryption=None when encryption is off, which boto3 rejects,
\* and _encrypt_data calls backend_config.get, which a string does not have
SaveSucceeds(cfg, io) ==
    /\ io = "ok"
    /\ cfg.backend = "s3" =>
          cfg.enable_encryption /\ cfg.backend_config = "dict"

\* list_checkpoints: the objects in the order of their keys, sorted by
\* timestamp with reverse=True; the sort is stable, equal timestamps stay
\* in the order of the keys
RECURSIVE NewestFirst(_, _)
NewestFirst(objs, S) ==
    IF S = {} THEN <<>>
    ELSE LET first == CHOOSE i \in S : \A j \in S \ {i} :
                        \/ objs[i].stamp > objs[j].stamp
                        \/ objs[i].stamp = objs[j].stamp /\ i < j
         IN  <<first>> \o NewestFirst(objs, S \ {first})

ListCheckpoints(objs) == NewestFirst(objs, {i \in Ids : objs[i].present})

\* _cleanup_old_checkpoints: delete what the listing holds past
\* max_checkpoints
CleanupOldCheckpoints(cfg, objs) ==
    LET listing == ListCheckpoints(objs) IN
    IF Len(listing) <= cfg.max_checkpoints THEN objs
    ELSE [i \in Ids |->
            IF \E k \in (cfg.max_checkpoints + 1)..Len(listing) : listing[k] = i
            THEN NoObject ELSE objs[i]]

\* load_checkpoint from the payload o on, told that it was encrypted /
\* compressed: the local backend skips a gzip layer that is not there, the
\* S3 backend gives up on it; both hand out the 'state' of what pickle.loads
\* gives
Decode(backend, o, was_encrypted, was_compressed) ==
    LET decrypted == IF backend = "s3" /\ was_encrypted
                     THEN IF Wrapped("fernet", o) THEN Unwrap(o) ELSE NoObject
                     ELSE o
        unzipped  == IF was_compressed
                     THEN IF Wrapped("gzip", decrypted) THEN Unwrap(decrypted)
                          ELSE IF backend = "local" THEN decrypted
                          ELSE NoObject
                     ELSE decrypted
    IN  IF o.present /\ unzipped.layers = <<"pickle">>
        THEN Some(unzipped.state) ELSE None

\* (variant: load decodes by the store's current settings)
LoadCheckpointOfCurrentSettings(cfg, objs, id) ==
    Decode(cfg.backend, objs[id], cfg.enable_encryption,
           cfg.compression_enabled)

\* load_checkpoint: was_encrypted and was_compressed are read from the
\* metadata written by the save
LoadCheckpointOf(cfg, objs, id) ==
    Decode(cfg.backend, objs[id], objs[id].encrypted, objs[id].compressed)

\* the payload and the metadata a save at the instant now writes
Stored(cfg, state, now) ==
    [present    |-> TRUE,
     stamp      |-> Stamp(cfg, now),
     compressed |-> cfg.compression_enabled,
     encrypted  |-> cfg.enable_encryption,
     layers     |-> Serialize(cfg, state).layers,
     state      |-> Serialize(cfg, state).state]

\* the ids saved so far with id as the most recent one
SavedAfter(log, id) == Append(SelectSeq(log, LAMBDA i : i # id), id)

\* save_checkpoint(state, id), dt instants after the previous save read the
\* clock: write the payload and its metadata, then trim
SaveCheckpoint(state, id, io, dt) ==
    /\ clock + dt <= MaxClock
    /\ clock' = clock + dt
    /\ IF SaveSucceeds(storeCfg, io)
       THEN /\ objects' = CleanupOldCheckpoints(storeCfg,
                  [objects EXCEPT ![id] = Stored(storeCfg, state, clock')])
            /\ saved' = SavedAfter(saved, id)
       ELSE UNCHANGED <<objects, saved>>
    /\ storeResult' = [NoStoreResult EXCEPT !.op = "save", !.id = id,
                          !.state = state, !.ok = SaveSucceeds(storeCfg, io)]
    /\ UNCHANGED <<storeFrame, storeCfg>>

\* load_checkpoint(id)
LoadCheckpoint(id) ==
    /\ storeResult' = [NoStoreResult EXCEPT !.op = "load", !.id = id,
                          !.loaded = LoadCheckpointOf(storeCfg, objects, id)]
    /\ UNCHANGED <<storeFrame, storeCfg, objects, clock, saved>>

StoreNext ==
    \/ \E state \in StateValues, id \in Ids, io \in IoOutcomes,
          dt \in 1..TicksPerSecond : SaveCheckpoint(state, id, io, dt)
    \/ \E id \in Ids : LoadCheckpoint(id)

StoreInit ==
    /\ MgrInit
    /\ config.checkpoint_interval > 0
    /\ config.enable_preemptive_drain
    /\ config.strategy # "manual"
    /\ DetIdle
    /\ RegIdle
    /\ ApiIdle
    /\ storeCfg \in StoreConfigs
    /\ StoreEmpty
    /\ ReplIdle
    /\ PlatIdle
    /\ MxIdle
    /\ DirIdle
    /\ ImdsIdle

\* any store configuration, then saves and loads
StoreSpec == StoreInit /\ [][StoreNext]_vars

\* after the first save the store is opened again with compression /
\* encryption set otherwise (a new manager over the same directory or
\* bucket prefix)
SwitchSettings(compression, encryption) ==
    /\ storeResult.op = "save"
    /\ clock = 1
    /\ <<compression, encryption>>
          # <<storeCfg.compression_enabled, storeCfg.enable_encryption>>
    /\ storeCfg' = [storeCfg EXCEPT !.compression_enabled = compression,
                                    !.enable_encryption = encryption]
    /\ storeResult' = [NoStoreResult EXCEPT !.op = "switch"]
    /\ UNCHANGED <<storeFrame, objects, clock, saved>>

SwitchNext ==
    \/ \E state \in StateValues, id \in Ids : SaveCheckpoint(state, id, "ok", 1)
    \/ \E id \in Ids : LoadCheckpoint(id)
    \/ \E compression \in BOOLEAN, encryption \in BOOLEAN :
          SwitchSettings(compression, encryption)

\* saves and loads with the settings changed in between; retention at its
\* widest, so that checkpoints saved under different settings stay
SwitchInit == StoreInit /\ storeCfg.max_checkpoints = MaxKeep

SwitchSpec == SwitchInit /\ [][SwitchNext]_vars

\* (variant: the S3 backend looks for the object before deleting it)
DeleteReturnsIfExisted(cfg, o, io) == io = "ok" /\ o.present

\* delete_checkpoint: what it returns.  The local backend returns whether
\* it unlinked a .pkl file; the S3 backend returns True once delete_object
\* has not raised, and S3 answers the delete of a missing key like any other.
DeleteReturns(cfg, o, io) ==
    /\ io = "ok"
    /\ cfg.backend = "local" => o.present

\* delete_checkpoint(id)
delete_checkpoint(id, io) ==
    /\ objects' = IF io = "ok" THEN [objects EXCEPT ![id] = NoObject]
                  ELSE objects
    /\ storeResult' = [NoStoreResult EXCEPT !.op = "delete", !.id = id,
                          !.ok = DeleteReturns(storeCfg, objects[id], io)]
    /\ UNCHANGED <<storeFrame, storeCfg, clock, saved>>

DeleteNext ==
    \/ StoreNext
    \/ \E id \in Ids, io \in IoOutcomes : delete_checkpoint(id, io)

\* saves, loads and deletes in any order
DeleteSpec == StoreInit /\ [][DeleteNext]_vars

\* ------------------------------------------- the elastic-scale strategy
\* ElasticScaleStrategy over a Platform that has or lacks scale_replacement.
\* The instance ids it makes up are a list; a ready list is a prefix of the
\* launched one, so a list is held as its length.  Times are whole seconds.
Capacities   == 0..MaxCapacity \cup {CapacityCeiling + 1}
Timeouts     == {k * TimeoutStep : k \in 0..MaxTimeoutSteps}
ReplDeadlines == {None, Some(0), Some(MinTimeNeeded \div 2),
                  Some(BaseTime \div 2),
                  Some(BaseTime + MaxCapacity * PerInstanceTime
                          + PlatformOverhead)}

\* config.scale_factor is a float: it is held as a whole number of
\* 1/ScaleDenominator, so 1.0 is ScaleDenominator and 1.5 is 3 halves
ScaleDenominator == 2
ScaleFactors == 1..(2 * ScaleDenominator)

\* context.platform_manager: one of the two built-in Platforms, None, or a
\* Platform of the caller's that has scale_replacement and coordinate_handoff
ReplPlatforms == {"ray", "ec2", "none", "custom"}

\* hasattr(context.platform_manager, 'scale_replacement')
HasScaleReplacement(platform) == platform \in {"ray", "ec2", "custom"}

\* hasattr(context.platform_manager, 'coordinate_handoff')
HasCoordinateHandoff(platform) == platform = "custom"

\* a context without a termination notice has no deadline_seconds
ReplCalls ==
    { call \in
        [ op                : {"execute_replacement", "can_handle_replacement"},
          required_capacity : Capacities,
          has_notice        : BOOLEAN,
          deadline_seconds  : ReplDeadlines,
          timeout_seconds   : Timeouts,
          scale_factor      : ScaleFactors,
          platform          : ReplPlatforms ] :
        ~call.has_notice => call.deadline_seconds = None }

Min(a, b) == IF a <= b THEN a ELSE b

\* estimate_replacement_time
EstimateReplacementTime(call) ==
    Min(BaseTime + call.required_capacity * PerInstanceTime + PlatformOverhead,
        call.timeout_seconds)

\* deadline_seconds or 120: None and 0 are both falsy
DeadlineOrDefault(deadline) ==
    IF deadline = None \/ deadline = Some(0) THEN DefaultDeadline
    ELSE CHOOSE d \in deadline : TRUE

\* can_handle_replacement, on a context that has a notice
CanHandleReplacementOf(call) ==
    /\ ~(EstimateReplacementTime(call) > DeadlineOrDefault(call.deadline_seconds))
    /\ ~(call.required_capacity > CapacityCeiling)

CanHandleReplacement ==
    /\ replCall.op = "can_handle_replacement"
    /\ replResult = NoReplResult
    /\ replResult' =
          IF replCall.has_notice
          THEN [NoReplResult EXCEPT !.kind = "returned",
                   !.success = CanHandleReplacementOf(replCall)]
          ELSE [NoReplResult EXCEPT !.kind = "raised",
                   !.error = "AttributeError"]
    /\ UNCHANGED <<replFrame, replCall, replState>>

\* _calculate_replacement_plan: plan['target_capacity']
\* (variant: the product is rounded up)
TargetCapacityRoundedUp(call) ==
    (call.required_capacity * call.scale_factor + ScaleDenominator - 1)
        \div ScaleDenominator

\* max(1, int(required_capacity * scale_factor)): int() drops the fraction
TargetCapacity(call) ==
    IF call.scale_factor # ScaleDenominator
    THEN Max(1, (call.required_capacity * call.scale_factor)
                   \div ScaleDenominator)
    ELSE call.required_capacity

\* _validate_replacement_context logs a warning
LimitedTime(call) ==
    /\ ~(call.required_capacity <= 0)
    /\ call.has_notice
    /\ DeadlineOrDefault(call.deadline_seconds) < MinTimeNeeded

\* a variant in which too short a deadline fails the validation
ValidateReplacementContextStrict(call) ==
    /\ ~(call.required_capacity <= 0)
    /\ call.has_notice
    /\ ~LimitedTime(call)

\* _validate_replacement_context: a short deadline is logged, no more
ValidateReplacementContext(call) ==
    /\ ~(call.required_capacity <= 0)
    /\ call.has_notice

ReplFailed(error) == [NoReplResult EXCEPT !.kind = "returned", !.error = error]

\* execute_replacement up to the readiness wait: validate, plan, launch.
\* scale is what platform_manager.scale_replacement does when it is there:
\* EC2's returns False, Ray's catches what it raises.
ScaleOutcomes == {"true", "false", "raised"}

ScaleReplacement(platform) ==
    CASE platform = "ec2"    -> {"false"}
      [] platform = "ray"    -> {"true", "false"}
      [] platform = "custom" -> ScaleOutcomes
      [] OTHER               -> {"absent"}

LaunchReplacement(scale) ==
    /\ replCall.op = "execute_replacement"
    /\ replState.phase = "idle"
    /\ replResult = NoReplResult
    /\ scale \in ScaleReplacement(replCall.platform)
    /\ IF ~ValidateReplacementContext(replCall)
       THEN /\ replResult' = ReplFailed("Invalid replacement context")
            /\ replState' = [replState EXCEPT !.phase = "done",
                                !.warned = LimitedTime(replCall)]
       ELSE IF HasScaleReplacement(replCall.platform) /\ scale # "true"
       THEN /\ replResult' = ReplFailed("Failed to launch replacement instances")
            /\ replState' = [replState EXCEPT !.phase = "done",
                                !.target = TargetCapacity(replCall),
                                !.requests = 1,
                                !.warned = LimitedTime(replCall)]
       ELSE /\ replState' =
                  [replState EXCEPT
                      !.phase = "waiting",
                      !.target = TargetCapacity(replCall),
                      !.launched = IF HasScaleReplacement(replCall.platform)
                                   THEN TargetCapacity(replCall) ELSE 1,
                      !.requests = IF HasScaleReplacement(replCall.platform)
                                   THEN 1 ELSE 0,
                      !.warned = LimitedTime(replCall)]
            /\ UNCHANGED replResult
    /\ UNCHANGED <<replFrame, replCall>>

\* the instances the simulation calls ready at elapsed seconds
ReadyAt(st, elapsed) ==
    IF elapsed > AllReadyAfter THEN st.launched
    ELSE IF elapsed > SomeReadyAfter
         THEN Min(st.launched, Max(1, st.launched \div 2))
         ELSE st.ready

\* one turn of the loop of _wait_for_instances_ready; sleep(5) takes 5
\* seconds and up to a second more
WaitForInstancesReady(late) ==
    /\ replState.phase = "waiting"
    /\ IF replState.elapsed < replCall.timeout_seconds
       THEN LET ready == ReadyAt(replState, replState.elapsed) IN
            IF replState.elapsed > AllReadyAfter \/ ready = replState.launched
            THEN replState' = [replState EXCEPT !.ready = ready,
                                                !.phase = "handoff"]
            ELSE replState' = [replState EXCEPT !.ready = ready,
                                  !.elapsed = @ + PollInterval + late]
       ELSE replState' = [replState EXCEPT !.phase = "handoff"]
    /\ UNCHANGED <<replFrame, replCall, replResult>>

\* (variant: the handoff_success of the metadata is always True)
HandoffSuccessIgnored(platform, handoff) == "true"

\* the handoff_success of the result's metadata: what coordinate_handoff
\* returned, True without one, False when it raised
HandoffSuccess(platform, handoff) ==
    IF HasCoordinateHandoff(platform) /\ handoff # "true" THEN "false"
    ELSE "true"

\* a variant in which a failed handoff fails the replacement
ReplacementSucceededWithHandoff(ready, handoff) == ready > 0 /\ handoff = "true"

\* success = len(ready_instances) > 0
ReplacementSucceeded(ready, handoff) == ready > 0

\* _coordinate_workload_handoff (its exceptions are caught) and the result
HandoffOutcomes == {"true", "false", "raised"}

CoordinateHandoff(handoff) ==
    /\ replState.phase = "handoff"
    /\ HasCoordinateHandoff(replCall.platform) \/ handoff = "true"
    /\ replState' = [replState EXCEPT !.phase = "done"]
    /\ replResult' = [NoReplResult EXCEPT
                         !.kind = "returned",
                         !.success = ReplacementSucceeded(replState.ready, handoff),
                         !.instances = replState.ready,
                         !.handoff_success =
                             HandoffSuccess(replCall.platform, handoff)]
    /\ UNCHANGED <<replFrame, replCall>>

ReplNext ==
    \/ CanHandleReplacement
    \/ \E scale \in ScaleOutcomes \cup {"absent"} : LaunchReplacement(scale)
    \/ \E late \in 0..1 : WaitForInstancesReady(late)
    \/ \E handoff \in HandoffOutcomes : CoordinateHandoff(handoff)

ReplInit ==
    /\ MgrInit
    /\ config.checkpoint_interval > 0
    /\ config.enable_preemptive_drain
    /\ config.strategy # "manual"
    /\ DetIdle
    /\ RegIdle
    /\ ApiIdle
    /\ StoreIdle
    /\ replCall \in ReplCalls
    /\ replState = NoReplState
    /\ replResult = NoReplResult
    /\ PlatIdle
    /\ MxIdle
    /\ DirIdle
    /\ ImdsIdle

\* one call of the strategy on any context
ReplSpec == ReplInit /\ [][ReplNext]_vars

\* ----------------------------------------------------------- Platforms
\* get_cluster_state of RayPlatformManager and EC2PlatformManager as a
\* function of what ray.nodes() reports and of where a query fails.
RayNodes == [Alive : BOOLEAN, draining : BOOLEAN]

RECURSIVE NodeLists(_)
NodeLists(n) ==
    IF n = 0 THEN {<<>>}
    ELSE NodeLists(n - 1)
           \cup {Append(l, node) : l \in {x \in NodeLists(n - 1) : Len(x) = n - 1},
                                   node \in RayNodes}

\* where the queries behind get_cluster_state raise
PlatformFailures == {"none", "raises"}

PlatformCalls ==
    [ op              : {"get_cluster_state"},
      platform        : {"ray", "ec2"},
      ray_initialized : BOOLEAN,
      nodes           : NodeLists(MaxNodes),
      failure         : PlatformFailures ]

ClusterState(total, healthy, draining, terminating) ==
    [kind |-> "cluster_state", total_nodes |-> total, healthy_nodes |-> healthy,
     draining_nodes |-> draining, terminating_nodes |-> terminating]

\* RayPlatformManager._get_node_state
GetNodeState(node) ==
    IF ~node.Alive THEN "terminated"
    ELSE IF node.draining THEN "draining"
    ELSE "healthy"

\* a variant that counts every node that is alive as healthy
IsHealthyAlive(node) == node.Alive

\* node_state == NodeState.HEALTHY
IsHealthy(node) == GetNodeState(node) = "healthy"

CountNodes(nodes, Test(_)) == Cardinality({i \in 1..Len(nodes) : Test(nodes[i])})

IsDraining(node)    == GetNodeState(node) = "draining"
IsTerminating(node) == GetNodeState(node) = "terminating"

RayGetClusterState(call) ==
    IF ~call.ray_initialized THEN ClusterState(0, 0, 0, 0)
    ELSE IF call.failure = "raises" THEN ClusterState(0, 0, 0, 0)
    ELSE ClusterState(Len(call.nodes),
                      CountNodes(call.nodes, IsHealthy),
                      CountNodes(call.nodes, IsDraining),
                      CountNodes(call.nodes, IsTerminating))

EC2GetClusterState(call) ==
    IF call.failure = "raises" THEN ClusterState(1, 0, 0, 0)
    ELSE ClusterState(1, 1, 0, 0)

PlatformGetClusterState ==
    /\ platCall.op = "get_cluster_state"
    /\ platResult = NoResult
    /\ platResult' = IF platCall.platform = "ray"
                     THEN RayGetClusterState(platCall)
                     ELSE EC2GetClusterState(platCall)
    /\ UNCHANGED <<platFrame, platCall>>

PlatNext == PlatformGetClusterState

PlatInit ==
    /\ MgrInit
    /\ config.checkpoint_interval > 0
    /\ config.enable_preemptive_drain
    /\ config.strategy # "manual"
    /\ DetIdle
    /\ RegIdle
    /\ ApiIdle
    /\ StoreIdle
    /\ ReplIdle
    /\ platCall \in PlatformCalls
    /\ platResult = NoResult
    /\ MxIdle
    /\ DirIdle
    /\ ImdsIdle

\* one get_cluster_state on any cluster
PlatSpec == PlatInit /\ [][PlatNext]_vars

\* ------------------------------------------- the MetricsCollector's lock
\* record_* calls and reset_metrics from several threads.  `x += 1` on a
\* dict entry is a read and a write; every method does both inside
\* `with self._lock`.

\* a variant whose methods do not wait for the lock
LockAcquirableAlways(lock) == TRUE

\* threading.Lock: acquired only when free
LockAcquirable(lock) == lock = 0

\* record_*: `with self._lock:` entered
RecordBegin(t, name) ==
    /\ mxThread[t].pc = "idle"
    /\ mxStarted < MaxRecords
    /\ LockAcquirable(mxLock)
    /\ mxLock' = t
    /\ mxStarted' = mxStarted + 1
    /\ mxThread' = [mxThread EXCEPT ![t] = [pc |-> "locked", name |-> name,
                                             local |-> 0]]
    /\ UNCHANGED <<mxFrame, mxCounters, mxSeries, mxApplied, mxResets>>

\* self._counters[name] is read
RecordRead(t) ==
    /\ mxThread[t].pc = "locked"
    /\ mxThread' = [mxThread EXCEPT ![t].pc = "read",
                                    ![t].local = mxCounters[mxThread[t].name]]
    /\ UNCHANGED <<mxFrame, mxCounters, mxSeries, mxLock, mxApplied,
                   mxStarted, mxResets>>

\* self._counters[name] = value read + 1; record_monitoring_error appends
\* to its time-series
RecordWrite(t) ==
    /\ mxThread[t].pc = "read"
    /\ mxCounters' = [mxCounters EXCEPT ![mxThread[t].name] = mxThread[t].local + 1]
    /\ mxApplied' = [mxApplied EXCEPT ![mxThread[t].name] = @ + 1]
    /\ mxSeries' = IF mxThread[t].name = "monitoring_errors_total"
                   THEN mxSeries + 1 ELSE mxSeries
    /\ mxThread' = [mxThread EXCEPT ![t].pc = "written"]
    /\ UNCHANGED <<mxFrame, mxLock, mxStarted, mxResets>>

\* the with block is left
RecordEnd(t) ==
    /\ mxThread[t].pc \in {"written", "cleared"}
    /\ mxLock' = IF mxLock = t THEN 0 ELSE mxLock
    /\ mxThread' = [mxThread EXCEPT ![t] = NoRecording]
    /\ UNCHANGED <<mxFrame, mxCounters, mxSeries, mxApplied, mxStarted,
                   mxResets>>

\* reset_metrics: `with self._lock:` entered
ResetBegin(t) ==
    /\ mxThread[t].pc = "idle"
    /\ mxResets + Cardinality({u \in Recorders :
                                 mxThread[u].pc = "resetting"}) < MaxResets
    /\ LockAcquirable(mxLock)
    /\ mxLock' = t
    /\ mxThread' = [mxThread EXCEPT ![t].pc = "resetting"]
    /\ UNCHANGED <<mxFrame, mxCounters, mxSeries, mxApplied, mxStarted,
                   mxResets>>

\* the clear() calls of reset_metrics
ResetClear(t) ==
    /\ mxThread[t].pc = "resetting"
    /\ mxCounters' = [n \in MetricNames |-> 0]
    /\ mxSeries' = 0
    /\ mxApplied' = [n \in MetricNames |-> 0]
    /\ mxResets' = mxResets + 1
    /\ mxThread' = [mxThread EXCEPT ![t].pc = "cleared"]
    /\ UNCHANGED <<mxFrame, mxLock, mxStarted>>

MxNext ==
    \/ \E t \in Recorders, name \in MetricNames : RecordBegin(t, name)
    \/ \E t \in Recorders : RecordRead(t)
    \/ \E t \in Recorders : RecordWrite(t)
    \/ \E t \in Recorders : RecordEnd(t)
    \/ \E t \in Recorders : ResetBegin(t)
    \/ \E t \in Recorders : ResetClear(t)

\* recorders and resets interleaved in every way
MxSpec == InitAllSteps /\ [][MxNext]_vars

\* ------------------------------ two saves on one local checkpoint directory
\* save_checkpoint of LocalCheckpointManager, statement by statement: write
\* <id>.pkl, write <id>.meta, then _cleanup_old_checkpoints: list_checkpoints
\* globs *.pkl and afterwards reads each file's metadata, the files past
\* max_checkpoints are deleted one delete_checkpoint call at a time.
IoFailures == {"ok", "pkl_fails", "meta_fails"}

\* list_checkpoints: the timestamp of a CheckpointInfo, from the .meta file
\* if it exists, else from st_mtime of the .pkl file
InfoTimestamp(dir, i) ==
    IF dir[i].meta THEN dir[i].timestamp ELSE dir[i].mtime

\* checkpoints.sort(key=timestamp, reverse=True)
RECURSIVE SortNewestFirst(_, _)
SortNewestFirst(dir, S) ==
    IF S = {} THEN <<>>
    ELSE LET first == CHOOSE i \in S : \A j \in S \ {i} :
                        \/ InfoTimestamp(dir, i) > InfoTimestamp(dir, j)
                        \/ InfoTimestamp(dir, i) = InfoTimestamp(dir, j) /\ i < j
         IN  <<first>> \o SortNewestFirst(dir, S \ {first})

\* list_checkpoints after the glob: checkpoint_file.stat() on a .pkl that
\* another call has deleted meanwhile raises FileNotFoundError, in the
\* metadata branch as the default of metadata.get('size_bytes', ...) and
\* again in its handler; the outer handler returns []
ListAfterGlob(dir, globbed) ==
    IF \E i \in globbed : ~dir[i].pkl THEN <<>>
    ELSE SortNewestFirst(dir, globbed)

\* _cleanup_old_checkpoints: checkpoints[max_checkpoints:]
CheckpointsToDelete(listing) ==
    IF Len(listing) <= max_checkpoints THEN <<>>
    ELSE SubSeq(listing, max_checkpoints + 1, Len(listing))

Returns(t, ok) == [saver[t] EXCEPT !.pc = "done", !.result = ok,
                                    !.globbed = {}, !.to_delete = <<>>]

\* force_checkpoint / _save_emergency_checkpoint call save_checkpoint
SaveBegin(t, io) ==
    /\ saver[t].pc = "idle"
    /\ saver' = [saver EXCEPT ![t].pc = "write_pkl", ![t].io = io]
    /\ UNCHANGED <<dirFrame, max_checkpoints, checkpoint_dir, wallClock>>

\* with open(checkpoint_file, 'wb') as f: f.write(serialized_data)
WritePkl(t) ==
    /\ saver[t].pc = "write_pkl"
    /\ IF saver[t].io = "pkl_fails"
       THEN /\ saver' = [saver EXCEPT ![t] = Returns(t, FALSE)]
            /\ UNCHANGED <<checkpoint_dir, wallClock>>
       ELSE /\ checkpoint_dir' = [checkpoint_dir EXCEPT
                                    ![SaverId(t)].pkl = TRUE,
                                    ![SaverId(t)].mtime = wallClock]
            /\ wallClock' = wallClock + 1
            /\ saver' = [saver EXCEPT ![t].pc = "write_meta"]
    /\ UNCHANGED <<dirFrame, max_checkpoints>>

\* json.dump(metadata, f) with 'timestamp': datetime.now(), then
\* `if self.config.max_checkpoints > 0`
WriteMeta(t) ==
    /\ saver[t].pc = "write_meta"
    /\ IF saver[t].io = "meta_fails"
       THEN /\ saver' = [saver EXCEPT ![t] = Returns(t, FALSE)]
            /\ UNCHANGED <<checkpoint_dir, wallClock>>
       ELSE /\ checkpoint_dir' = [checkpoint_dir EXCEPT
                                    ![SaverId(t)].meta = TRUE,
                                    ![SaverId(t)].timestamp = wallClock]
            /\ wallClock' = wallClock + 1
            /\ saver' = [saver EXCEPT ![t] =
                            IF max_checkpoints > 0
                            THEN [@ EXCEPT !.pc = "glob"]
                            ELSE Returns(t, TRUE)]
    /\ UNCHANGED <<dirFrame, max_checkpoints>>

\* list_checkpoints: self.checkpoint_dir.glob("*.pkl")
Glob(t) ==
    /\ saver[t].pc = "glob"
    /\ saver' = [saver EXCEPT ![t].pc = "infos",
                              ![t].globbed = {i \in DirIds : checkpoint_dir[i].pkl}]
    /\ UNCHANGED <<dirFrame, max_checkpoints, checkpoint_dir, wallClock>>

\* list_checkpoints: the CheckpointInfo of each globbed file, the sort;
\* _cleanup_old_checkpoints: the slice to delete
Infos(t) ==
    /\ saver[t].pc = "infos"
    /\ LET del == CheckpointsToDelete(ListAfterGlob(checkpoint_dir,
                                                    saver[t].globbed))
       IN  saver' = [saver EXCEPT ![t] =
                        IF del = <<>> THEN Returns(t, TRUE)
                        ELSE [@ EXCEPT !.pc = "delete", !.globbed = {},
                                       !.to_delete = del]]
    /\ UNCHANGED <<dirFrame, max_checkpoints, checkpoint_dir, wallClock>>

\* delete_checkpoint(checkpoint.checkpoint_id): unlink what exists of
\* <id>.pkl and <id>.meta; a failure is logged and the loop goes on
DeleteCheckpoint(t) ==
    /\ saver[t].pc = "delete"
    /\ checkpoint_dir' = [checkpoint_dir EXCEPT ![Head(saver[t].to_delete)] = NoFile]
    /\ saver' = [saver EXCEPT ![t] =
                    IF Tail(saver[t].to_delete) = <<>> THEN Returns(t, TRUE)
                    ELSE [@ EXCEPT !.to_delete = Tail(@)]]
    /\ UNCHANGED <<dirFrame, max_checkpoints, wallClock>>

DirNext ==
    \/ \E t \in Savers, io \in IoFailures : SaveBegin(t, io)
    \/ \E t \in Savers : WritePkl(t)
    \/ \E t \in Savers : WriteMeta(t)
    \/ \E t \in Savers : Glob(t)
    \/ \E t \in Savers : Infos(t)
    \/ \E t \in Savers : DeleteCheckpoint(t)

\* the directory holds what earlier saves under the same max_checkpoints
\* left: at most max_checkpoints checkpoints when the limit is on
DirInit ==
    /\ MgrInit
    /\ DetIdle
    /\ RegIdle
    /\ ApiIdle
    /\ StoreIdle
    /\ ReplIdle
    /\ PlatIdle
    /\ MxIdle
    /\ ImdsIdle
    /\ max_checkpoints \in 0..MaxKeep
    /\ \E n \in 0..MaxPrior :
          /\ max_checkpoints > 0 => n <= max_checkpoints
          /\ checkpoint_dir = [i \in DirIds |->
                IF i <= n
                THEN [pkl |-> TRUE, meta |-> TRUE, mtime |-> i, timestamp |-> i]
                ELSE NoFile]
    /\ wallClock = MaxPrior + 1
    /\ saver = [t \in Savers |-> SaverIdle]

DirSpec == DirInit /\ [][DirNext]_vars

\* ------------------------------------- the AWS Detector over several calls
\* what the token endpoint answers to the PUT: a token, an empty body, an
\* error status, or no answer
TokenResponses == {"200", "200_empty", "403", "ConnectTimeout"}
\* what the instance-action path answers to the first GET and to the retry
ActionResponses == {"200", "401", "404", "ReadTimeout"}
RetryResponses  == {"200", "404", "ReadTimeout"}
\* seconds that pass between two calls
Advances == {0, RefreshMargin, TokenTtl - RefreshMargin - 1,
             TokenTtl - RefreshMargin, TokenTtl}

\* `if self.token`, `if token`
Truthy(tok) == tok \notin {NoToken, ""}

\* (variant: the cached token is used up to its expiry)
TokenCachedUntilExpiry(tok, expiry, now) == Truthy(tok) /\ now < expiry

\* _get_imds_token: `if self.token and time.time() < self.token_expiry - 10`
TokenCached(tok, expiry, now) ==
    Truthy(tok) /\ now < expiry - RefreshMargin

\* _get_imds_token: what it returns, and self.token / self.token_expiry
\* after it.  Only a 200 stores a token; every failure returns None and
\* leaves the fields as they were.
GetImdsToken(tok, expiry, now, answer) ==
    IF TokenCached(tok, expiry, now)
    THEN [returned |-> tok, token |-> tok, token_expiry |-> expiry,
          requested |-> FALSE]
    ELSE IF answer \in {"200", "200_empty"}
    THEN LET text == IF answer = "200" THEN "token" ELSE ""
         IN  [returned |-> text, token |-> text,
              token_expiry |-> now + TokenTtl, requested |-> TRUE]
    ELSE [returned |-> NoToken, token |-> tok, token_expiry |-> expiry,
          requested |-> TRUE]

TokenRequest == [path |-> "api/token", with_token |-> FALSE]
ActionRequest(with) == [path |-> "spot/instance-action", with_token |-> with]

\* check_termination: the requests one call sends, in order
ImdsRequests(v2, got, action) ==
    (IF v2 /\ got.requested THEN <<TokenRequest>> ELSE <<>>)
       \o <<ActionRequest(v2 /\ Truthy(got.returned))>>
       \o (IF action = "401" /\ v2 THEN <<ActionRequest(FALSE)>> ELSE <<>>)

\* one check_termination call of the Detector
ImdsCheckTermination(answer, action, retry, form) ==
    /\ imdsCalls < MaxCalls
    /\ LET got == IF enable_imds_v2
                  THEN GetImdsToken(token, token_expiry, imdsNow, answer)
                  ELSE [returned |-> NoToken, token |-> token,
                        token_expiry |-> token_expiry, requested |-> FALSE]
           env == [enable_imds_v2 |-> enable_imds_v2, request |-> action,
                   retry |-> retry, time_form |-> form,
                   scheduled |-> imdsNow + TickSeconds, now |-> imdsNow]
       IN  /\ token' = got.token
           /\ token_expiry' = got.token_expiry
           /\ imdsCall' = [op |-> "check_termination", now |-> imdsNow,
                           held |-> token, held_expiry |-> token_expiry,
                           token_response |-> answer, request |-> action,
                           retry |-> retry, time_form |-> form,
                           requests |-> ImdsRequests(enable_imds_v2, got, action),
                           result |-> AWSCheckTermination(env)]
    /\ imdsCalls' = imdsCalls + 1
    /\ UNCHANGED <<imdsFrame, enable_imds_v2, imdsNow>>

\* time passes between two calls
ImdsSleep(d) ==
    /\ imdsCalls \in 1..(MaxCalls - 1)
    /\ imdsCall.now = imdsNow
    /\ d > 0
    /\ imdsNow' = imdsNow + d
    /\ UNCHANGED <<imdsFrame, enable_imds_v2, token, token_expiry, imdsCall,
                   imdsCalls>>

ImdsNext ==
    \/ \E answer \in TokenResponses, action \in ActionResponses,
          retry \in RetryResponses, form \in TimeForms :
          ImdsCheckTermination(answer, action, retry, form)
    \/ \E d \in Advances : ImdsSleep(d)

ImdsInit ==
    /\ MgrInit
    /\ config.checkpoint_interval > 0
    /\ config.enable_preemptive_drain
    /\ config.strategy # "manual"
    /\ DetIdle
    /\ RegIdle
    /\ ApiIdle
    /\ StoreIdle
    /\ ReplIdle
    /\ PlatIdle
    /\ MxIdle
    /\ DirIdle
    /\ enable_imds_v2 \in BOOLEAN
    /\ token = NoToken
    /\ token_expiry = 0
    /\ imdsNow = TokenTtl
    /\ imdsCall = NoImdsCall
    /\ imdsCalls = 0

ImdsSpec == ImdsInit /\ [][ImdsNext]_vars

TypeOK ==
    /\ config \in Configs
    /\ running \in BOOLEAN
    /\ monitor_thread \in 0..MaxThreads
    /\ noticeCount \in 0..MaxNotices
    /\ errorCount \in 0..MaxErrors
    /\ \A t \in Threads : pc[t] \in {"unstarted", "loop", "in_call", "in_save",
                                     "in_drain", "repl_set", "in_replace",
                                     "exited"}
    /\ callerPc \in {"idle", "start", "stop", "joining", "body", "exit", "left"}

\* ------------------------------------------------------------- properties
\* task t has run the mitigation sequence to its end: the signal was raised
RunOver(t) == run[t].signal # NoSignal

\* the caller's thread is inside the protected region
InProtectedRegion == callerPc = "body"

\* C1: when a notice is detected while the caller is inside the protected
\* region, the termination signal of that detection interrupts the caller's
\* thread (it is raised there).
C1_CallerInterrupted ==
    \A t \in Threads :
        (RunOver(t) /\ InProtectedRegion) =>
            run[t].signal.thread \notin Threads

\* C2: every run of the mitigation sequence ends by raising
\* TerminationDetectedError and nothing else, carrying the notice's deadline
\* and scheduled time, whether the steps succeeded, failed or raised.
C2_SignalCarriesNotice ==
    \A t \in Threads :
        (notice[t] # NoNotice /\ pc[t] = "loop") =>
            /\ run[t].signal.type = "TerminationDetectedError"
            /\ run[t].signal.deadline_seconds = notice[t].deadline_seconds
            /\ run[t].signal.termination_time = notice[t].time

C2_Witness ==
    \E t \in Threads :
        /\ RunOver(t)
        /\ run[t].drain = "raised"
        /\ run[t].ckpt = "failed"
        /\ notice[t].deadline_seconds = 90
        /\ run[t].signal.deadline_seconds = 90

\* C3: once check_termination has returned a notice to a polling task, that
\* task makes no further check_termination call.
C3_PollingStopsOnNotice ==
    [][\A t \in Threads : RunOver(t) => pc'[t] # "in_call"]_vars

\* C4: a drain that returns false or raises does not abort the sequence:
\* the replacement step (strategy not "manual") is still executed and the
\* drain failure does not leave the step.
C4_DrainFailureIsolated ==
    \A t \in Threads :
        (/\ RunOver(t)
         /\ run[t].drain \in {"false", "raised"}
         /\ config.strategy # "manual") =>
            /\ run[t].repl # "none"
            /\ ~run[t].signal.handling_failed

\* C5: a failed emergency checkpoint never aborts the sequence: the drain
\* step (if enabled) and the replacement step (if not "manual") are still
\* executed for that notice.
C5_CheckpointFailureIsolated ==
    \A t \in Threads :
        (RunOver(t) /\ run[t].ckpt = "failed") =>
            /\ config.enable_preemptive_drain => run[t].drain # "none"
            /\ config.strategy # "manual" => run[t].repl # "none"

\* C6: replacement_in_progress is true only while a replacement step is
\* executing, and it is false when a replacement step ends, however it ends.
C6_ReplacementFlagCleared ==
    /\ [](replacement_in_progress => \E t \in Threads : pc[t] = "in_replace")
    /\ [][\A t \in Threads :
            (pc[t] = "in_replace" /\ pc'[t] # "in_replace")
                => ~replacement_in_progress']_vars

C6_Witness ==
    \E t \in Threads :
        /\ RunOver(t)
        /\ run[t].repl = "done"
        /\ ~replacement_in_progress

\* C7: start_monitoring while running creates no task and records no
\* start; stop_monitoring while not running changes nothing and records no
\* stop.
C7_StartStopIdempotent ==
    [][/\ (/\ running
           /\ \/ callerPc = "start" /\ callerPc' # "start"
              \/ callerPc = "idle" /\ callerPc' = "body")
          => UNCHANGED <<mgrVars, metricsVars, threadVars>>
       /\ (/\ ~running
           /\ \/ callerPc = "stop" /\ callerPc' # "stop"
              \/ callerPc = "exit" /\ callerPc' # "exit")
          => UNCHANGED <<mgrVars, metricsVars, threadVars>>]_vars

C7_Witness ==
    /\ callerPc = "start"
    /\ running
    /\ monitor_thread = 1
    /\ counters["monitoring_starts_total"] = 1

\* C8: stop_monitoring always returns: its wait for the polling task ends
\* whether or not the task has ended, and it returns with running = false.
C8_StopReturns ==
    /\ (callerPc = "joining") ~> (callerPc # "joining")
    /\ [][(/\ callerPc \in {"stop", "exit", "joining"}
           /\ callerPc' \notin {"stop", "exit", "joining"}) => ~running']_vars

C8_Witness ==
    /\ callerPc \in {"idle", "left"}
    /\ ~running
    /\ counters["monitoring_stops_total"] = 1
    /\ monitor_thread = 1
    /\ pc[1] \in {"in_call", "in_save", "in_drain", "in_replace"}

C10_ScopeStopsAndPropagates ==
    callerPc = "left" => (~running /\ scopeOutcome = bodyOutcome)

C10_Witness ==
    /\ callerPc = "left"
    /\ scope = "with"
    /\ ~running
    /\ scopeOutcome = [kind |-> "raise", value |-> "TerminationDetectedError"]

\* C11: a check_termination call that raises does not end the polling task:
\* the error is caught, monitoring_errors_total grows by one, and while
\* monitoring is running the task goes on to its next check_termination
\* call; a notice returned by that call starts the mitigation sequence.
C11_DetectorErrorKeepsPolling ==
    /\ [][\A t \in Threads :
            (/\ pc[t] = "in_call" /\ pc'[t] # "in_call"
             /\ errorCount' = errorCount + 1) =>
                /\ pc'[t] = "loop"
                /\ counters'["monitoring_errors_total"]
                      = counters["monitoring_errors_total"] + 1]_vars
    /\ (\E t \in Threads : t = monitor_thread /\ pc[t] = "loop" /\ running)
          ~> ((\E t \in Threads : t = monitor_thread /\ pc[t] = "in_call")
                \/ ~running)
    /\ [][\A t \in Threads :
            (/\ pc[t] = "in_call" /\ pc'[t] # "in_call"
             /\ noticeCount' = noticeCount + 1) =>
                /\ termination_detected'
                /\ notice'[t] \in Notices
                /\ pc'[t] \in {"in_save", "in_drain", "repl_set"}]_vars

C11_Witness ==
    /\ monitor_thread = 1
    /\ pc[1] = "in_save"
    /\ errorCount = 1
    /\ counters["monitoring_errors_total"] = 1
    /\ noticeCount = 1
    /\ termination_detected

\* C12: for every provider's Detector, a connection failure or a timeout
\* (connect or read) of the request to the metadata endpoint makes
\* check_termination return nothing and never raise.
C12_UnreachableMeansNoNotice ==
    (/\ detCall.op = "check_termination"
     /\ detCall.request \in HttpExceptions
     /\ detResult # NoResult)
        => detResult = ReturnsNone

\* C13: every TerminationNotice has a deadline_seconds that is a number
\* and is >= 0, whether a Detector produced it or from_dict built it.
C13_DeadlineNonNegative ==
    detResult.kind = "notice" =>
        /\ detResult.notice.deadline_seconds # None
        /\ \A d \in detResult.notice.deadline_seconds : d >= 0

\* two keys are the same key when they differ in letter case only
SameKey(k1, k2) ==
    \/ k1 = k2
    \/ {k1, k2} = {"aws", "AWS"}

\* the class given by the most recent of the first i register calls that
\* was on capability c with a key equal to k up to letter case ("never"
\* when there is none)
RECURSIVE LastRegisteredBefore(_, _, _)
LastRegisteredBefore(c, k, i) ==
    IF i = 0 THEN "never"
    ELSE IF regLog[i].capability = c /\ SameKey(regLog[i].key, k)
         THEN regLog[i].class
         ELSE LastRegisteredBefore(c, k, i - 1)

LastRegistered(c, k) == LastRegisteredBefore(c, k, Len(regLog))

\* create(k) gave an instance of the class most recently registered for k
CreatedLastRegistered ==
    (/\ created.op = "create"
     /\ LastRegistered(created.capability, created.key) # "never")
        => /\ created.result.kind = "instance"
           /\ created.result.class
                = LastRegistered(created.capability, created.key)

\* C14 as stated: on every capability and for every key, create(k)
\* instantiates the class of the most recent register whose key equals k
\* ignoring case, and a register changes no other binding.
C14_LastWriteWins ==
    /\ CreatedLastRegistered
    /\ \A c \in Capabilities, k \in LowerKeys :
          LastRegistered(c, k) = "never"
            => registry[c][k] = BuiltinComponents[c][k]

\* C14, amended: the same for every key except "auto" (in any letter case)
\* on the detector and platform factories, where create instantiates the
\* binding of the auto-detected key; the dict itself holds one binding per
\* lower-case key, the last one written, and no register touches another
\* key or capability.
C14_LastWriteWinsExceptAuto ==
    /\ (created.op = "create"
        /\ ~AutoDetects(created.capability, created.key))
          => CreatedLastRegistered
    /\ \A c \in Capabilities, k \in LowerKeys :
          registry[c][k] = IF LastRegistered(c, k) = "never"
                           THEN BuiltinComponents[c][k]
                           ELSE LastRegistered(c, k)

C14_Witness ==
    /\ Len(regLog) = 2
    /\ regLog[1] = [capability |-> "checkpoint", key |-> "aws",
                    class |-> "ClassA"]
    /\ regLog[2] = [capability |-> "checkpoint", key |-> "AWS",
                    class |-> "ClassB"]
    /\ created.op = "create"
    /\ created.capability = "checkpoint"
    /\ created.key = "aws"
    /\ created.result = [kind |-> "instance", class |-> "ClassB"]

\* C15: on each of the four capabilities, create with an unregistered key
\* raises ConfigurationError naming the key, and so does constructing a
\* SpotManager whose config names an unregistered key.
C15_UnregisteredIsConfigurationError ==
    /\ (created.op = "create"
        /\ ~AutoDetects(created.capability, created.key)
        /\ registry[created.capability][Lower(created.key)] = "unregistered")
          => /\ created.result.kind = "raise"
             /\ created.result.exc = "ConfigurationError"
             /\ created.result.names = Lower(created.key)
    /\ (created.op = "construct"
        /\ \E c \in Capabilities :
              registry[c][Lower(created.keys[c])] = "unregistered")
          => /\ created.result.kind = "raise"
             /\ created.result.exc = "ConfigurationError"
             /\ \E c \in Capabilities :
                   /\ registry[c][Lower(created.keys[c])] = "unregistered"
                   /\ created.result.names = Lower(created.keys[c])
             /\ monitor_thread = 0
             /\ \A t \in Threads : pc[t] = "unstarted"

\* the three public reads
ReadOps == {"get_status", "get_cluster_state", "get_metrics"}

\* a step in which the public method op returned or raised
ApiStep(op) == apiResult' # apiResult /\ apiResult'.op = op

InMitigation(t) == pc[t] \in {"in_save", "in_drain", "repl_set", "in_replace"}

\* C16: get_status, get_cluster_state and get_metrics can be called in every
\* monitoring state and are pure reads: a step of one of them changes none
\* of running, termination_detected, replacement_in_progress, the polling
\* tasks or any counter or gauge; get_status reports the flags as they are;
\* get_status and get_metrics never raise.
C16_ReadsArePure ==
    /\ [][(\E op \in ReadOps : ApiStep(op))
            => UNCHANGED <<mgrVars, metricsVars, threadVars,
                           checkpoints_manual_total>>]_vars
    /\ [][ApiStep("get_status")
            => apiResult'.status = <<running, termination_detected,
                                     replacement_in_progress>>]_vars
    /\ [](apiResult.op \in {"get_status", "get_metrics"}
            => apiResult.kind = "returned")

\* get_status answered during a mitigation, after the counters had counted
C16_Witness ==
    /\ apiResult.op = "get_status"
    /\ apiResult.status = <<TRUE, TRUE, FALSE>>
    /\ \E t \in Threads : pc[t] = "in_drain"
    /\ counters["terminations_detected_total"] = 1

\* C17: force_checkpoint can be called in any state of the orchestrator; it
\* returns true exactly when save_checkpoint returned true, false when save
\* returned false or the capture or the save raised, never raises, and its
\* step leaves running, termination_detected and replacement_in_progress
\* unchanged.
C17_ForceCheckpointReturnsSaveResult ==
    /\ [](apiResult.op = "force_checkpoint"
            => /\ apiResult.kind = "returned"
               /\ apiResult.ok <=> apiResult.save = "saved")
    /\ [][ApiStep("force_checkpoint")
            => UNCHANGED <<running, termination_detected,
                           replacement_in_progress, threadVars>>]_vars

\* a manual checkpoint saved while a replacement was running
C17_Witness ==
    /\ apiResult.op = "force_checkpoint"
    /\ apiResult.ok
    /\ checkpoints_manual_total = 1
    /\ replacement_in_progress
    /\ \E t \in Threads : pc[t] = "in_replace"

\* C18: only the polling tasks write termination_detected and
\* replacement_in_progress: a step that changes either flag is a step of a
\* polling task and no step of start_monitoring, stop_monitoring, a public
\* read or force_checkpoint; termination_detected is true while any task is
\* in a mitigation step, and once true it stays true.
C18_PollingTaskSoleWriter ==
    /\ [][(\/ termination_detected' # termination_detected
           \/ replacement_in_progress' # replacement_in_progress)
            => /\ \E t \in Threads : pc'[t] # pc[t]
               /\ UNCHANGED <<running, monitor_thread, callerVars,
                              apiVars>>]_vars
    /\ [][termination_detected => termination_detected']_vars
    /\ [](\A t \in Threads : InMitigation(t) => termination_detected)

\* the flag outlives the mitigation, a stop_monitoring and a force_checkpoint
C18_Witness ==
    /\ termination_detected
    /\ ~replacement_in_progress
    /\ ~running
    /\ counters["monitoring_stops_total"] = 1
    /\ counters["terminations_handled_total"] = 1
    /\ apiResult.op = "force_checkpoint"
    /\ \A t \in Threads : ~InMitigation(t)

\* what list_checkpoints gives in the current state
Listing == ListCheckpoints(objects)

\* the k most recently saved ids, newest first
NewestSaved(k) == [j \in 1..k |-> saved[Len(saved) - j + 1]]

\* C19: when save(state, id) has returned true, load(id) under the same
\* configuration returns state (for the local backend saving compressed and
\* unencrypted, the listing then starts with id and shows compressed=true);
\* load of an id that was never saved returns nothing.
C19_RoundTrip ==
    /\ (storeResult.op = "save" /\ storeResult.ok)
          => /\ LoadCheckpointOf(storeCfg, objects, storeResult.id)
                   = Some(storeResult.state)
             /\ (/\ storeCfg.backend = "local"
                 /\ storeCfg.compression_enabled
                 /\ ~storeCfg.enable_encryption)
                   => /\ Listing # <<>>
                      /\ Head(Listing) = storeResult.id
                      /\ objects[storeResult.id].compressed
    /\ (/\ storeResult.op = "load"
        /\ \A k \in 1..Len(saved) : saved[k] # storeResult.id)
          => storeResult.loaded = None

\* C20: with max_checkpoints = N > 0, after any sequence of saves the
\* listing has at most N entries, exactly N once more than N distinct ids
\* have been saved, and it is the N most recently saved ids, newest first:
\* the checkpoint just saved is never the one trimmed.
C20_Retention ==
    LET N == storeCfg.max_checkpoints IN
    /\ Len(Listing) <= N
    /\ Len(saved) > N => Len(Listing) = N
    /\ Len(Listing) <= Len(saved)
    /\ Listing = NewestSaved(Len(Listing))
    /\ (storeResult.op = "save" /\ storeResult.ok)
          => \E k \in 1..Len(Listing) : Listing[k] = storeResult.id

\* C21: can_handle_replacement returns false whenever the estimate exceeds
\* the notice's deadline_seconds, deadline_seconds = 0 included, and
\* whenever required_capacity exceeds the ceiling of 10.
C21_CanHandleRejects ==
    (replCall.op = "can_handle_replacement" /\ replResult.kind = "returned")
       => /\ \A d \in replCall.deadline_seconds :
                EstimateReplacementTime(replCall) > d => ~replResult.success
          /\ replCall.required_capacity > CapacityCeiling => ~replResult.success

\* the readiness wait of execute_replacement has run to its end
WaitEnded == replCall.op = "execute_replacement" /\ replState.phase = "done"
                /\ replState.launched > 0

\* C22: when no instance is ready before the readiness timeout,
\* execute_replacement returns success = false with a non-empty error after
\* exactly one provisioning request to the Platform.
C22_NoneReadyFailsWithError ==
    (WaitEnded /\ replState.ready = 0)
       => /\ ~replResult.success
          /\ replResult.error # "none"
          /\ replState.requests = 1

\* C23: execute_replacement returns success = true exactly when at least
\* one launched instance is ready when the readiness wait ends, a partial
\* subset included; replacement_instances is that ready subset; the wait
\* ends no later than timeout_seconds plus one poll interval.
C23_SuccessIsReadiness ==
    /\ (replCall.op = "execute_replacement" /\ replResult.kind = "returned")
          => /\ replResult.success <=> replState.ready > 0
             /\ replResult.instances = replState.ready
             /\ replState.ready <= replState.launched
    /\ replCall.op = "execute_replacement"
          => replState.elapsed <= replCall.timeout_seconds + PollInterval

\* a success on a part of the launched instances, the wait cut by the timeout
C23_Witness ==
    /\ WaitEnded
    /\ replResult.success
    /\ replState.ready > 0
    /\ replState.ready < replState.launched
    /\ replState.elapsed >= replCall.timeout_seconds

\* C24: every ClusterState a Platform's get_cluster_state returns, on the
\* normal path and on the error paths, has
\* healthy_nodes + draining_nodes + terminating_nodes <= total_nodes.
C24_ClusterStateCountsBounded ==
    platResult # NoResult
       => /\ platResult.kind = "cluster_state"
          /\ platResult.healthy_nodes + platResult.draining_nodes
                + platResult.terminating_nodes <= platResult.total_nodes

\* a Ray cluster with a healthy, a draining and a dead node
C24_Witness ==
    /\ platCall.op = "get_cluster_state"
    /\ platCall.platform = "ray"
    /\ platResult # NoResult
    /\ platResult.total_nodes = 3
    /\ platResult.healthy_nodes = 1
    /\ platResult.draining_nodes = 1

\* C25: under every interleaving of record_* calls from several threads,
\* each call's increment is applied exactly once (a counter equals the
\* number of increments written since the last reset), a counter and the
\* time-series never shrink except in a step of reset_metrics, and only one
\* thread at a time is inside the collector.
C25_CountersRaceFree ==
    /\ [](\A n \in MetricNames : mxCounters[n] = mxApplied[n])
    /\ [](mxSeries = mxApplied["monitoring_errors_total"])
    /\ [](Cardinality({t \in Recorders : mxThread[t].pc # "idle"}) <= 1)
    /\ [][(\/ \E n \in MetricNames : mxCounters'[n] < mxCounters[n]
           \/ mxSeries' < mxSeries)
            => mxResets' = mxResets + 1]_vars

\* two threads have recorded the same counter after a reset
C25_Witness ==
    /\ mxResets = 1
    /\ mxCounters["monitoring_errors_total"] = 2
    /\ mxSeries = 2
    /\ \A t \in Recorders : mxThread[t].pc = "idle"

\* a notice handled under the "manual" strategy: nothing of the replacement
\* step happens, the enabled steps before it are attempted, and the signal
\* raised at the end is TerminationDetectedError
ManualSkipsReplacement ==
    config.strategy = "manual" =>
        /\ ~replacement_in_progress
        /\ \A t \in Threads :
              /\ pc[t] \notin {"repl_set", "in_replace"}
              /\ run[t].repl = "none"
              /\ run[t].signal # NoSignal =>
                    /\ run[t].signal.type = "TerminationDetectedError"
                    /\ config.checkpoint_interval > 0 => run[t].ckpt # "none"
                    /\ (config.enable_preemptive_drain
                        /\ ~run[t].signal.handling_failed)
                          => run[t].drain # "none"

\* C26: with replacement.strategy = "manual" (and the other three keys of
\* the config registered) SpotManager(config) returns a manager, and on a
\* notice that manager runs the checkpoint and drain steps, never enters the
\* replacement step, never sets replacement_in_progress and raises the
\* termination signal.
C26_ManualStrategyConstructs ==
    /\ (created.op = "construct"
        /\ created.keys.replacement = "manual"
        /\ \A c \in Capabilities \ {"replacement"} :
              registry[c][Lower(created.keys[c])] # "unregistered")
          => created.result.kind = "instance"
    /\ ManualSkipsReplacement

\* how far _handle_termination has come: 0 before the handler, 1 in the
\* checkpoint save, 2 in the drain, 3 in the replacement, 4 after it
StepOf(p) ==
    CASE p = "in_save"                   -> 1
      [] p = "in_drain"                  -> 2
      [] p \in {"repl_set", "in_replace"} -> 3
      [] p = "in_call"                   -> 0
      [] OTHER                           -> 4

\* task t enters the mitigation step at position p
Enters(t, p) == pc'[t] = p /\ pc[t] # p

\* C27: for every notice the steps run in the order checkpoint, drain,
\* replacement: a task enters a step only from the poll that returned the
\* notice or from an earlier step; the drain is entered only after the save
\* attempt (if enabled) has ended, the replacement only after the save and
\* drain attempts (if enabled) have ended; a step's outcome is recorded once.
C27_StepsInOrderOnce ==
    [][\A t \in Threads :
        /\ (\E p \in {"in_save", "in_drain", "repl_set"} : Enters(t, p))
              => StepOf(pc[t]) < StepOf(pc'[t])
        /\ InMitigation(t) => StepOf(pc[t]) <= StepOf(pc'[t])
        /\ Enters(t, "in_save") => run'[t] = NoRun
        /\ Enters(t, "in_drain") =>
              /\ config.checkpoint_interval > 0 => run'[t].ckpt # "none"
              /\ run'[t].drain = "none"
        /\ Enters(t, "repl_set") =>
              /\ config.checkpoint_interval > 0 => run'[t].ckpt # "none"
              /\ config.enable_preemptive_drain => run'[t].drain # "none"
              /\ run'[t].repl = "none"
        /\ (InMitigation(t) /\ run[t].ckpt # "none")
              => run'[t].ckpt = run[t].ckpt
        /\ (InMitigation(t) /\ run[t].drain # "none")
              => run'[t].drain = run[t].drain]_vars

\* a task in the replacement step after a save and a drain attempt
C27_Witness ==
    \E t \in Threads :
        /\ pc[t] = "in_replace"
        /\ run[t].ckpt # "none"
        /\ run[t].drain # "none"

\* task t has passed the `while self.running` test and is inside an
\* iteration of _monitor_loop: in check_termination or in the handler
InIteration(t) == pc[t] = "in_call" \/ InMitigation(t)

\* C28: at every moment at most one polling task of the manager is inside
\* an iteration of the polling loop, whatever the order of start_monitoring
\* and stop_monitoring calls, a start after a stop whose join(timeout=5)
\* ran out included.
C28_OnePollingTask ==
    Cardinality({t \in Threads : InIteration(t)}) <= 1

\* both save_checkpoint calls have returned
BothSaved == \A t \in Savers : saver[t].pc = "done"

\* the checkpoints in the directory, as load_checkpoint finds them
OnDisk == {i \in DirIds : checkpoint_dir[i].pkl}

\* the savers whose save_checkpoint returned true
ReportedSaved == {t \in Savers : saver[t].result = TRUE}

\* C29: when force_checkpoint and the emergency checkpoint have both
\* returned, under every interleaving of their statements: each returned
\* true exactly if its own two file writes went through; with a limit
\* max_checkpoints > 0 and both saves true the directory holds at most
\* max_checkpoints checkpoints; and of the checkpoints reported saved the
\* newest max_checkpoints are there to load (the two are newer than all the
\* directory held before, so at least min(max_checkpoints, number reported
\* saved) of them are on disk).
C29_ConcurrentSavesSafe ==
    BothSaved =>
        /\ \A t \in Savers : saver[t].result = (saver[t].io = "ok")
        /\ (max_checkpoints > 0 /\ ReportedSaved = Savers)
              => Cardinality(OnDisk) <= max_checkpoints
        /\ max_checkpoints > 0 =>
              Cardinality({t \in ReportedSaved : SaverId(t) \in OnDisk})
                 >= Min(max_checkpoints, Cardinality(ReportedSaved))

\* C30: the AWS Detector answers a 200 on the instance-action path with a
\* notice, whatever the form of the scheduled time in the body (trailing Z,
\* no zone, unparsable), whose time is the scheduled time when it parses and
\* whose deadline_seconds is that time minus now, floored at 0; it answers a
\* 404 with nothing.
C30_AwsResponseMapping ==
    (/\ detCall.op = "check_termination"
     /\ detCall.provider = "aws"
     /\ detResult # NoResult)
        => /\ detCall.request = "200" =>
                 /\ detResult.kind = "notice"
                 /\ detCall.time_form # "unparsable"
                       => detResult.notice.time = detCall.scheduled
                 /\ detResult.notice.deadline_seconds
                       = Some(Max(0, detResult.notice.time - detCall.now))
           /\ detCall.request = "404" => detResult = ReturnsNone

\* the requests of the last call that went to the instance-action path
ActionRequests ==
    SelectSeq(imdsCall.requests, LAMBDA r : r.path = "spot/instance-action")

\* the last call contacted the token endpoint
TokenContacted ==
    \E k \in 1..Len(imdsCall.requests) : imdsCall.requests[k] = TokenRequest

\* C31: when the token-bearing request to the instance-action path answers
\* 401, the same check_termination call sends exactly one more request to
\* that path, without the token; the call returns a notice exactly when
\* that retry answers 200, nothing otherwise, and never raises.
C31_Retry401 ==
    (/\ imdsCall.op = "check_termination"
     /\ imdsCall.request = "401"
     /\ ActionRequests[1].with_token)
        => /\ Tail(ActionRequests) = <<ActionRequest(FALSE)>>
           /\ imdsCall.result.kind # "raise"
           /\ imdsCall.result.kind = "notice" <=> imdsCall.retry = "200"
           /\ imdsCall.retry # "200" => imdsCall.result = ReturnsNone

\* the Detector held no token when the last call began, or the call began
\* within the refresh margin of the token's expiry
MustRefresh ==
    \/ ~Truthy(imdsCall.held)
    \/ imdsCall.now >= imdsCall.held_expiry - RefreshMargin

\* C32: a check_termination call contacts the token endpoint only when the
\* Detector holds no token or now is within the refresh margin of the
\* token's expiry (and then once, when IMDSv2 is enabled); otherwise the
\* cached token and its expiry are kept and the token is sent with the
\* request; when the token endpoint fails, the instance-action path is still
\* requested, without a token.
C32_TokenCaching ==
    imdsCall.op = "check_termination" =>
        /\ TokenContacted <=> (enable_imds_v2 /\ MustRefresh)
        /\ Len(SelectSeq(imdsCall.requests,
                         LAMBDA r : r = TokenRequest)) <= 1
        /\ (enable_imds_v2 /\ ~MustRefresh)
              => /\ token = imdsCall.held
                 /\ token_expiry = imdsCall.held_expiry
                 /\ ActionRequests[1] = ActionRequest(TRUE)
        /\ (TokenContacted /\ imdsCall.token_response \notin {"200"})
              => ActionRequests[1] = ActionRequest(FALSE)
        /\ Len(ActionRequests) >= 1

\* a second call, inside the token's lifetime, that sent the cached token
\* without asking for a new one; and a later one that asked again
C32_Witness ==
    /\ imdsCalls = 2
    /\ imdsCall.now = TokenTtl + (TokenTtl - RefreshMargin - 1)
    /\ Truthy(imdsCall.held)
    /\ ~TokenContacted
    /\ imdsCall.requests[1] = ActionRequest(TRUE)

\* the event the last call had to report: the first of a terminating type
Reported == detCall.events[FindTerminationEvent(detCall.events)]

\* C33: a list with no event of a terminating type gives no notice; else
\* the notice reports the first such event, and its deadline_seconds is the
\* time left until that event's NotBefore, floored at 0, the fixed fallback
\* being used only when NotBefore is missing or unparsable.
C33_AzureDeadlineFromNotBefore ==
    (detCall.op = "scheduled_events" /\ detResult # NoResult) =>
        IF FindTerminationEvent(detCall.events) = 0
        THEN detResult = ReturnsNone
        ELSE /\ detResult.kind = "notice"
             /\ detResult.action = LowerEventType(Reported.EventType)
             /\ Reported.time_form # "unparsable"
                   => /\ detResult.notice.time = Reported.NotBefore
                      /\ detResult.notice.deadline_seconds
                            = Some(Max(0, Reported.NotBefore - detCall.now))
             /\ Reported.time_form = "unparsable"
                   => detResult.notice.deadline_seconds = Some(AzureDeadline)

C35_LoadUsesRecordedFlags ==
    (storeResult.op = "load" /\ objects[storeResult.id].present)
        => storeResult.loaded = Some(objects[storeResult.id].state)

\* a checkpoint saved compressed, loaded with compression switched off
C35_Witness ==
    /\ storeResult.op = "load"
    /\ objects[storeResult.id].present
    /\ objects[storeResult.id].compressed
    /\ ~storeCfg.compression_enabled
    /\ storeResult.loaded # None

\* C36: list() never holds an id twice; a delete(id) that meets no I/O
\* error returns true exactly if the checkpoint existed, leaves load(id)
\* with nothing to return and id out of list(), and changes no other
\* checkpoint.
C36_DeleteRemovesExactlyOne ==
    /\ [](\A j, k \in 1..Len(Listing) : Listing[j] = Listing[k] => j = k)
    /\ [][\A id \in Ids : delete_checkpoint(id, "ok") =>
            /\ storeResult'.ok = objects[id].present
            /\ LoadCheckpointOf(storeCfg, objects', id) = None
            /\ \A k \in 1..Len(ListCheckpoints(objects')) :
                  ListCheckpoints(objects')[k] # id
            /\ \A j \in Ids \ {id} : objects'[j] = objects[j]]_vars

\* the least whole number not below n / d
Ceiling(n, d) == (n + d - 1) \div d

\* execute_replacement has accepted its context and made its plan
Planned ==
    /\ replCall.op = "execute_replacement"
    /\ replState.phase # "idle"
    /\ replCall.required_capacity >= 1
    /\ replCall.has_notice

\* C37: for every required_capacity >= 1 and scale_factor > 0 the planned
\* target capacity is ceil(required_capacity x scale_factor), and that
\* target is the capacity requested from the Platform.
C37_TargetIsCeiling ==
    Planned =>
       /\ replState.target =
             Ceiling(replCall.required_capacity * replCall.scale_factor,
                     ScaleDenominator)
       /\ (replState.requests > 0 /\ replState.launched > 0)
             => replState.launched = replState.target

\* the Platforms that cannot provision: EC2, and no Platform at all
WithoutScaling == {"ec2", "none"}

\* C38: on a Platform that does not support provisioning, EC2 included,
\* the strategy does not fail at the launch step: it makes up a single
\* placeholder instance and goes on to the readiness wait and the handoff.
C38_UnsupportedPlatformGetsPlaceholder ==
    (Planned /\ replCall.platform \in WithoutScaling) =>
       /\ replState.launched = 1
       /\ replResult.error # "Failed to launch replacement instances"

\* C39: when coordinate_handoff returns false or raises, the result has
\* success = true if at least one instance is ready, handoff_success =
\* false in its metadata, and the success, replacement_instances and error
\* it would have had with a handoff that worked.
C39_HandoffBestEffort ==
    [][\A handoff \in HandoffOutcomes \ {"true"} :
          CoordinateHandoff(handoff) =>
             /\ replResult'.success = (replState.ready > 0)
             /\ replResult'.instances = replState.ready
             /\ replResult'.error = "none"
             /\ replResult'.handoff_success = "false"]_vars

\* a successful replacement whose handoff failed
C39_Witness ==
    /\ replCall.op = "execute_replacement"
    /\ replResult.kind = "returned"
    /\ replResult.success
    /\ replResult.instances > 0
    /\ replResult.handoff_success = "false"

\* C40: execute_replacement with required_capacity <= 0 or without a
\* notice returns a failed result (success = false, error set) and makes no
\* request to the Platform; a deadline below the minimum-time threshold
\* does not by itself make the result fail.
C40_ValidationFailsWithoutRequest ==
    (replCall.op = "execute_replacement" /\ replState.phase # "idle") =>
       /\ (replCall.required_capacity <= 0 \/ ~replCall.has_notice)
             => /\ replResult.kind = "returned"
                /\ ~replResult.success
                /\ replResult.error # "none"
                /\ replState.requests = 0
                /\ replState.launched = 0
       /\ (Planned /\ \E d \in replCall.deadline_seconds : d < MinTimeNeeded)
             => /\ replResult.error # "Invalid replacement context"
                /\ replState.target > 0
                /\ (replState.phase = "done" /\ replState.ready > 0)
                      => replResult.success

\* a context without a notice, turned down before any request
C40_Witness ==
    /\ replCall.op = "execute_replacement"
    /\ replCall.required_capacity > 0
    /\ ~replCall.has_notice
    /\ replState.phase = "done"
    /\ replResult.error = "Invalid replacement context"
    /\ replState.requests = 0
====
